---------------------------- MODULE Spec2Model ----------------------------
(***************************************************************************)
(* A model of deepseek_agents: the transport client (src/src/deepseek.rs), *)
(* the Producer and Auditor stages (src/src/agents/*.rs) and the pipeline  *)
(* orchestrator (src/src/orchestrator.rs).                                 *)
(*                                                                         *)
(* Values are records throughout, so that any two of them can be compared: *)
(*   Option<T>     None / Some(v)                                          *)
(*   Result<T, E>  Ok(v) / Err(e)                                          *)
(*   JSON values   JNull / JStr(s) / JNum(n) / JObj(fields)                *)
(*   raw text      NotJson(t) / JsonText(v)                                *)
(***************************************************************************)
EXTENDS Integers, Sequences, FiniteSets, TLC

VARIABLES
    pc,          \* where the program is (see the actions)
    feature,     \* cfg(feature = "deepseek_api"): the vendor SDK is compiled in
    config,      \* the Config handed to the constructor
    clients,     \* the constructed DeepSeekClient values, by role
    newResult,   \* what the constructor returned
    newLog,      \* the DeepSeekClient::new calls made: configuration, what the
                 \* builders did, result
    attempts,    \* send_request: `attempts`
    backoff,     \* send_request: `backoff`, in milliseconds
    events,      \* send_request: the attempts made and the sleeps slept, in order
    srResult,    \* send_request: the value returned
    lastCall,    \* the send_messages_raw call the latest step completed, if it did:
                 \* strategy, remote outcome, result
    task,        \* run_pipeline: the TaskSpec of the run
    requests,    \* the requests the stages issued in this run, in order
    inflight,    \* the stages whose request is awaiting its reply
    dirs,        \* file system: the directories that exist
    mkdirs,      \* the create_dir_all calls of the run, in order
    files,       \* file system: the content of solution.json and validation.json
    filesBefore, \* the content of the two files when run_pipeline was called
    writes,      \* the fs::write calls of this run: path, text, how each ended
    produced,    \* what ProducerAgent::execute returned in this run
    audited,     \* what AuditorAgent::execute returned in this run
    pipeResult,  \* what run_pipeline returned
    roundTrip,   \* a value of the schema, its serialization and what that parses to
    consoleProducer, \* run_producer_agent: what its Producer stage returned and
                     \* what it returned itself
    consoleRun   \* Console::run: the inputs sent, the results displayed, how the
                 \* loop ended and where an interrupt found it

(***************************************************************************)
(* Bounds of the model.                                                    *)
(***************************************************************************)
\* the longest `choices` list a response body carries
MaxChoices == 2

\* the inputs one Console::run may send
MaxInputs == 1

(***************************************************************************)
(* Option, Result.                                                         *)
(***************************************************************************)
None == [some |-> FALSE]
Some(v) == [some |-> TRUE, val |-> v]

Ok(v) == [ok |-> TRUE, val |-> v]
Err(e) == [ok |-> FALSE, err |-> e]

(***************************************************************************)
(* DeepSeekError, deepseek.rs:21-40.                                       *)
(***************************************************************************)
ServerBusy == [kind |-> "ServerBusy"]
NetworkError(m) == [kind |-> "NetworkError", message |-> m]
Timeout(s) == [kind |-> "Timeout", seconds |-> s]
ApiError(st, m) == [kind |-> "ApiError", status |-> st, message |-> m]
ParseError(m) == [kind |-> "ParseError", message |-> m]
ConfigError(m) == [kind |-> "ConfigError", message |-> m]

\* DeepSeekError::user_message, deepseek.rs:56-89: which of its texts
user_message(e) ==
    CASE e.kind = "ServerBusy" -> "servers are currently busy"
      [] e.kind = "NetworkError" -> "network connection failed"
      [] e.kind = "Timeout" -> "request timed out"
      [] e.kind = "ApiError" ->
            (CASE e.status = 429 -> "rate limit exceeded"
               [] e.status = 503 -> "service temporarily unavailable"
               [] e.status \in {502, 504} -> "server gateway error"
               [] OTHER -> "API error (status)")
      [] e.kind = "ParseError" -> "failed to parse server response"
      [] OTHER -> "configuration error"

\* deepseek.rs:45-47
is_server_busy(e) == e.kind = "ServerBusy"

\* deepseek.rs:51-53
is_network_error(e) == e.kind = "NetworkError"

(***************************************************************************)
(* JSON values and raw reply text.                                         *)
(***************************************************************************)
JNull == [t |-> "null"]
JStr(s) == [t |-> "str", v |-> s]
JNum(n) == [t |-> "num", v |-> n]
JBool(b) == [t |-> "bool", v |-> b]
JObj(fields) == [t |-> "obj", v |-> fields]
JArr(items) == [t |-> "arr", v |-> items]

NotJson(text) == [json |-> FALSE, text |-> text]
JsonText(v) == [json |-> TRUE, value |-> v]

\* the object `v` has key `k`
Has(v, k) == v.t = "obj" /\ k \in DOMAIN v.v

\* serde, a required `String` field: present and a JSON string
ReqStr(v, k) == Has(v, k) /\ v.v[k].t = "str"

\* serde, an `Option<String>` field: absent, null or a JSON string
OptStrOk(v, k) == Has(v, k) => v.v[k].t \in {"null", "str"}

\* serde, the value of an `Option<String>` field: absent and null both give None
OptStr(v, k) == IF Has(v, k) /\ v.v[k].t = "str" THEN Some(v.v[k].v) ELSE None

\* serde, an `Option<f32>` field
OptNumOk(v, k) == Has(v, k) => v.v[k].t \in {"null", "num"}

OptNum(v, k) == IF Has(v, k) /\ v.v[k].t = "num" THEN Some(v.v[k].v) ELSE None

\* serde, a required number field (f32, or u32 when not negative)
ReqNum(v, k) == Has(v, k) /\ v.v[k].t = "num"

ReqU32(v, k) == ReqNum(v, k) /\ v.v[k].v >= 0

\* serde, a required field holding an object
ReqObj(v, k) == Has(v, k) /\ v.v[k].t = "obj"

\* serde, a required field of an enum with the given (snake_case) variants
ReqEnum(v, k, variants) == ReqStr(v, k) /\ v.v[k].v \in variants

\* one key of a serialized object, left out when `present` is false
\* (#[serde(skip_serializing_if = "Option::is_none")])
Key(k, present, v) == IF present THEN (k :> v) ELSE <<>>

(***************************************************************************)
(* DeepSeekResponse and its serde decoding, deepseek.rs:93-102, 262-266.   *)
(***************************************************************************)
ParseDeepSeekResponse(raw) ==
    IF /\ raw.json
       /\ raw.value.t = "obj"
       /\ ReqStr(raw.value, "title")
       /\ ReqStr(raw.value, "description")
       /\ ReqStr(raw.value, "content")
       /\ OptStrOk(raw.value, "category")
       /\ OptStrOk(raw.value, "timestamp")
       /\ OptNumOk(raw.value, "confidence")
    THEN Ok([title |-> raw.value.v["title"].v,
             description |-> raw.value.v["description"].v,
             content |-> raw.value.v["content"].v,
             category |-> OptStr(raw.value, "category"),
             timestamp |-> OptStr(raw.value, "timestamp"),
             confidence |-> OptNum(raw.value, "confidence")])
    ELSE Err(ParseError("Failed to parse JSON response from DeepSeek"))

(***************************************************************************)
(* What the network can do with one request.                               *)
(*                                                                         *)
(*   a send error: reqwest::Error with its is_timeout / is_connect /       *)
(*     is_request flags and its Display text;                              *)
(*   a response: a status and a body.  A body may be unreadable (the       *)
(*     connection breaks while it is read); a readable body has a text,    *)
(*     and `wire` is what that text decodes to as ApiResponse: None when   *)
(*     it does not decode, Some(choices) when it does, each choice being   *)
(*     the raw text of message.content.                                    *)
(***************************************************************************)
ErrorTexts ==
    {"dns error", "connection refused", "network unreachable",
     "connection reset", "builder error"}

\* error.to_string().to_lowercase().contains(word), deepseek.rs:292-305
Contains(text, word) ==
    CASE word = "dns" -> text = "dns error"
      [] word = "connection refused" -> text = "connection refused"
      [] word = "network" -> text = "network unreachable"
      [] word = "connection" -> text \in {"connection refused", "connection reset"}
      [] OTHER -> FALSE

\* every combination of the flags; the text is varied where the code reads it,
\* that is when no flag is set
SendErrors ==
    {e \in [type : {"send_error"}, timeout : BOOLEAN, connect : BOOLEAN,
            request : BOOLEAN, text : ErrorTexts] :
        (e.timeout \/ e.connect \/ e.request) => e.text = "builder error"}

Statuses == {200, 201, 302, 400, 429, 500, 502, 503, 504}

\* StatusCode::is_success, deepseek.rs:422
is_success(status) == 200 <= status /\ status <= 299

UnreadableBody == [readable |-> FALSE]
TextBody(text) == [readable |-> TRUE, text |-> text, wire |-> None]
WireBody(choices) == [readable |-> TRUE, text |-> "{\"choices\": ...}", wire |-> Some(choices)]

ErrorBodies == {UnreadableBody, TextBody("upstream error")}

\* the second and later choices of a body: the code never reads them
Fillers == {NotJson("another choice")}

RECURSIVE FillerLists(_)
FillerLists(n) ==
    IF n <= 0 THEN {<<>>}
    ELSE {<<>>} \cup {<<f>> \o l : f \in Fillers, l \in FillerLists(n - 1)}

\* the choices lists whose first element is one of `contents`
ChoiceLists(contents) ==
    {<<>>} \cup {<<c>> \o l : c \in contents, l \in FillerLists(MaxChoices - 1)}

SuccessBodies(contents) ==
    {UnreadableBody, TextBody("<html>")}
        \cup {WireBody(cs) : cs \in ChoiceLists(contents)}

Responses(contents) ==
    {[type |-> "response", status |-> s, body |-> b] :
        s \in {st \in Statuses : ~is_success(st)}, b \in ErrorBodies}
    \cup
    {[type |-> "response", status |-> s, body |-> b] :
        s \in {st \in Statuses : is_success(st)}, b \in SuccessBodies(contents)}

RemoteOutcomes(contents) == SendErrors \cup Responses(contents)

\* the outcomes a stage's one request is checked with: one of each way the
\* transport treats differently (a timeout, a connection error, a busy
\* server, another error status, an unreadable body, a body that does not
\* decode, no choice) and a 200 carrying each of `contents`
StageOutcomes(contents) ==
    {o \in RemoteOutcomes(contents) :
        IF o.type = "send_error"
        THEN o.text = "builder error" /\ ~o.request /\ (o.timeout # o.connect)
        ELSE IF ~is_success(o.status)
        THEN o.status \in {429, 500} /\ o.body.readable
        ELSE o.status = 200
             /\ (o.body.readable /\ o.body.wire.some => Len(o.body.wire.val) <= 1)}

(***************************************************************************)
(* Config (src/config.rs is not among the sources: validate() is modelled  *)
(* on the specification, section 4.1: construction fails when credential   *)
(* or endpoint is malformed or absent).                                    *)
(***************************************************************************)
BaseUrls == {"", "https://api.deepseek.com/v1", "http://localhost:8080"}

\* the configurations of the model: the default model with every credential,
\* endpoint and timeout, and one whose model is the reasoning model already.
\* The temperature is in tenths.
Configs ==
    [api_key : {"", "sk-key"}, base_url : BaseUrls,
     model : {"deepseek-chat"}, timeout : {30, 60},
     max_tokens : {4096}, temperature : {7}]
    \cup
    {[api_key |-> "sk-key", base_url |-> "http://localhost:8080",
      model |-> "deepseek-reasoner", timeout |-> 30,
      max_tokens |-> 4096, temperature |-> 7]}

validate(cfg) == cfg.api_key # "" /\ cfg.base_url # ""

\* deepseek.rs:439-448
is_official_deepseek_host(feat, base_url) ==
    IF feat
    THEN base_url = "https://api.deepseek.com/v1"   \* starts_with("https://api.deepseek.com")
    ELSE FALSE

(***************************************************************************)
(* DeepSeekClient::new, deepseek.rs:159-200.  `httpBuilds` and `sdkBuilds` *)
(* are the outcomes of Client::builder().build() and of the SDK builder.   *)
(***************************************************************************)
\* what becomes of the SDK client in the constructor, deepseek.rs:172-192
sdk_init(feat, cfg, sdkBuilds) ==
    IF ~feat THEN "not_compiled"
    ELSE IF ~is_official_deepseek_host(feat, cfg.base_url) THEN "not_selected"
    ELSE IF sdkBuilds THEN "built"
    ELSE "failed"

\* the `ext_client` field, deepseek.rs:172-189
ext_client_of(feat, cfg, sdkBuilds) ==
    IF feat
    THEN IF is_official_deepseek_host(feat, cfg.base_url)
         THEN IF sdkBuilds THEN Some("ext") ELSE None
         ELSE None
    ELSE None

\* new returning the SDK builder's error to the caller
new_sdk_error(feat, cfg, httpBuilds, sdkBuilds) ==
    IF ~validate(cfg)
    THEN Err(ConfigError("invalid configuration"))
    ELSE IF ~httpBuilds
    THEN Err(ConfigError("Failed to create HTTP client"))
    ELSE IF sdk_init(feat, cfg, sdkBuilds) = "failed"
    THEN Err(ConfigError("Failed to initialize deepseek-api client"))
    ELSE Ok([config |-> cfg, ext_client |-> ext_client_of(feat, cfg, sdkBuilds)])

new(feat, cfg, httpBuilds, sdkBuilds) ==
    IF ~validate(cfg)
    THEN Err(ConfigError("invalid configuration"))
    ELSE IF ~httpBuilds
    THEN Err(ConfigError("Failed to create HTTP client"))
    ELSE Ok([config |-> cfg, ext_client |-> ext_client_of(feat, cfg, sdkBuilds)])

\* the record of one constructor call.  The SDK builder runs only once the
\* configuration was validated and the HTTP client built.
NewCall(feat, cfg, httpBuilds, sdkBuilds) ==
    [config |-> cfg,
     http |-> IF ~validate(cfg) THEN "not_reached"
              ELSE IF httpBuilds THEN "built" ELSE "failed",
     sdk |-> IF validate(cfg) /\ httpBuilds
             THEN sdk_init(feat, cfg, sdkBuilds) ELSE "not_reached",
     result |-> new(feat, cfg, httpBuilds, sdkBuilds)]


(***************************************************************************)
(* The direct HTTP strategy.                                               *)
(***************************************************************************)
\* map_reqwest_error testing the connect and request flags before the timeout flag
map_reqwest_error_timeout_last(cfg, error) ==
    IF error.connect THEN NetworkError("Failed to connect to server")
    ELSE IF error.request THEN NetworkError("Request failed")
    ELSE IF error.timeout THEN Timeout(cfg.timeout)
    ELSE NetworkError("Request error")

\* DeepSeekClient::map_reqwest_error, deepseek.rs:272-314
map_reqwest_error(cfg, error) ==
    IF error.timeout THEN Timeout(cfg.timeout)
    ELSE IF error.connect THEN NetworkError("Failed to connect to server")
    ELSE IF error.request THEN NetworkError("Request failed")
    ELSE IF Contains(error.text, "dns") THEN NetworkError("DNS resolution failed")
    ELSE IF Contains(error.text, "connection refused")
    THEN NetworkError("Connection refused by server")
    ELSE IF Contains(error.text, "network") \/ Contains(error.text, "connection")
    THEN NetworkError(error.text)
    ELSE NetworkError("Request error")

\* response.text().await.unwrap_or_else(|_| "Unknown error"), deepseek.rs:322-325
error_text(body) == IF body.readable THEN body.text ELSE "Unknown error"

\* handle_error_response without the arm of 429
handle_error_response_no_429(status, body) ==
    CASE status = 503 -> ServerBusy
      [] status \in {502, 504} -> ServerBusy
      [] OTHER -> ApiError(status, error_text(body))

\* DeepSeekClient::handle_error_response, deepseek.rs:317-336
handle_error_response(status, body) ==
    CASE status = 429 -> ServerBusy
      [] status = 503 -> ServerBusy
      [] status \in {502, 504} -> ServerBusy
      [] OTHER -> ApiError(status, error_text(body))

\* first_choice taking the last choice
first_choice_last(body) ==
    IF ~body.readable \/ ~body.wire.some
    THEN Err(ParseError("Failed to parse API response"))
    ELSE IF Len(body.wire.val) = 0
    THEN Err(ParseError("No choices in API response"))
    ELSE Ok(body.wire.val[Len(body.wire.val)])

\* response.json::<ApiResponse>() and the choice taken, deepseek.rs:426-435
first_choice(body) ==
    IF ~body.readable \/ ~body.wire.some
    THEN Err(ParseError("Failed to parse API response"))
    ELSE IF Len(body.wire.val) = 0
    THEN Err(ParseError("No choices in API response"))
    ELSE Ok(body.wire.val[1])

\* DeepSeekClient::send_messages_raw_internal, deepseek.rs:398-436
send_messages_raw_internal(cfg, outcome) ==
    IF outcome.type = "send_error"
    THEN Err(map_reqwest_error(cfg, outcome))
    ELSE IF ~is_success(outcome.status)
    THEN Err(handle_error_response(outcome.status, outcome.body))
    ELSE first_choice(outcome.body)

(***************************************************************************)
(* The vendor-SDK strategy, deepseek.rs:345-390.  The SDK is a crate of    *)
(* its own; what the code can see of it is the Result of                   *)
(* send_completion_request: an error for every request that did not bring  *)
(* back a decodable completion, a full response otherwise.                 *)
(***************************************************************************)
\* ext.send_completion_request(builder).await, deepseek.rs:372-374
send_completion_request(outcome) ==
    IF outcome.type = "send_error"
    THEN Err("sdk: request failed")
    ELSE IF ~is_success(outcome.status)
    THEN Err("sdk: http status")
    ELSE IF ~outcome.body.readable \/ ~outcome.body.wire.some
    THEN Err("sdk: decode failed")
    ELSE Ok([full |-> TRUE,
             choices |-> [i \in 1..Len(outcome.body.wire.val) |->
                            [message |-> Some(outcome.body.wire.val[i]),
                             text |-> None]]])

\* send_messages_raw_ext passing the HTTP status on
send_messages_raw_ext_status(outcome) ==
    LET resp == send_completion_request(outcome) IN
    IF ~resp.ok
    THEN Err(ApiError(IF outcome.type = "response" THEN outcome.status ELSE 0, resp.err))
    ELSE IF ~resp.val.full
    THEN Err(ParseError("Unexpected streaming response"))
    ELSE IF Len(resp.val.choices) = 0
    THEN Err(ParseError("No choices in API response"))
    ELSE LET first == resp.val.choices[1] IN
         IF first.message.some THEN Ok(first.message.val)
         ELSE IF first.text.some THEN Ok(first.text.val)
         ELSE Err(ParseError("Empty content in API response"))

\* the SDK branch of send_messages_raw, deepseek.rs:347-389
send_messages_raw_ext(outcome) ==
    LET resp == send_completion_request(outcome) IN
    IF ~resp.ok THEN Err(ApiError(0, resp.err))
    ELSE IF ~resp.val.full
    THEN Err(ParseError("Unexpected streaming response"))
    ELSE IF Len(resp.val.choices) = 0
    THEN Err(ParseError("No choices in API response"))
    ELSE LET first == resp.val.choices[1] IN
         IF first.message.some THEN Ok(first.message.val)
         ELSE IF first.text.some THEN Ok(first.text.val)
         ELSE Err(ParseError("Empty content in API response"))

\* the strategy a client uses: `if let Some(ext) = &self.ext_client`,
\* deepseek.rs:345-347, 393
strategy(client) == IF client.ext_client.some THEN "sdk" ELSE "http"

\* DeepSeekClient::send_messages_raw, deepseek.rs:340-394
send_messages_raw(client, outcome) ==
    IF strategy(client) = "sdk"
    THEN send_messages_raw_ext(outcome)
    ELSE send_messages_raw_internal(client.config, outcome)

\* DeepSeekClient::send_request_once, deepseek.rs:232-269
send_request_once(client, outcome) ==
    LET raw == send_messages_raw(client, outcome) IN
    IF ~raw.ok THEN raw ELSE ParseDeepSeekResponse(raw.val)

\* the record of one send_messages_raw call
Call(client, outcome) ==
    [client |-> client,
     strategy |-> strategy(client),
     outcome |-> outcome,
     result |-> send_messages_raw(client, outcome)]

NoCall == [strategy |-> "none"]

(***************************************************************************)
(* What a model may answer to send_request's prompt.                       *)
(***************************************************************************)
DsrFull ==
    JsonText(JObj([title |-> JStr("T"), description |-> JStr("D"),
                   content |-> JStr("C"), category |-> JNull,
                   timestamp |-> JStr("2025-01-01T00:00:00Z"),
                   confidence |-> JNum(1)]))

DsrMinimal ==
    JsonText(JObj([title |-> JStr("t"), description |-> JStr("d"),
                   content |-> JStr("c")]))

DsrNoContent == JsonText(JObj([title |-> JStr("T"), description |-> JStr("D")]))

ChatContents == {DsrFull, DsrMinimal, DsrNoContent, NotJson("Sure! Here it is")}

(***************************************************************************)
(* Schema contracts, types.rs.  A SolutionV1 / ValidationV1 value is a     *)
(* record of its fields; Parse... is serde_json::from_str for the type     *)
(* (a required field must be present and of its type, an Option field may  *)
(* be absent or null, unknown keys are ignored) and Serialize... is        *)
(* serde_json::to_string_pretty.  Numbers are integers here: a temperature *)
(* or a score is counted in tenths.                                        *)
(***************************************************************************)
DeliverableTypes == {"text", "json", "code"}
Verdicts == {"pass", "warn", "fail"}
Severities == {"minor", "major"}

\* ModelUsed, types.rs:23-27
ModelUsedOk(v) == v.t = "obj" /\ ReqStr(v, "name") /\ ReqNum(v, "temperature")

ModelUsedOf(v) == [name |-> v.v["name"].v, temperature |-> v.v["temperature"].v]

ModelUsedJson(m) == JObj([name |-> JStr(m.name), temperature |-> JNum(m.temperature)])

\* CodeArtifact, types.rs:29-33
CodeOk(v) == v.t = "obj" /\ ReqStr(v, "language") /\ ReqStr(v, "content")

\* Deliverable, types.rs:35-43
DeliverableOk(v) ==
    /\ v.t = "obj"
    /\ OptStrOk(v, "text")
    /\ Has(v, "code") => (v.v["code"].t = "null" \/ CodeOk(v.v["code"]))

DeliverableOf(v) ==
    [text |-> OptStr(v, "text"),
     json |-> IF Has(v, "json") /\ v.v["json"].t # "null"
              THEN Some(v.v["json"]) ELSE None,
     code |-> IF Has(v, "code") /\ v.v["code"].t # "null"
              THEN Some([language |-> v.v["code"].v["language"].v,
                         content |-> v.v["code"].v["content"].v])
              ELSE None]

DeliverableJson(d) ==
    JObj(Key("text", d.text.some, IF d.text.some THEN JStr(d.text.val) ELSE JNull)
         @@ Key("json", d.json.some, IF d.json.some THEN d.json.val ELSE JNull)
         @@ Key("code", d.code.some,
                IF d.code.some
                THEN JObj([language |-> JStr(d.code.val.language),
                           content |-> JStr(d.code.val.content)])
                ELSE JNull))

\* Evidence, types.rs:45-50
EvidenceOk(v) == v.t = "obj" /\ ReqStr(v, "system_prompt") /\ OptStrOk(v, "usage_note")

EvidenceOf(v) ==
    [system_prompt |-> v.v["system_prompt"].v, usage_note |-> OptStr(v, "usage_note")]

EvidenceJson(e) ==
    JObj([system_prompt |-> JStr(e.system_prompt)]
         @@ Key("usage_note", e.usage_note.some,
                IF e.usage_note.some THEN JStr(e.usage_note.val) ELSE JNull))

\* Usage, types.rs:52-56
UsageOk(v) ==
    v.t = "obj" /\ ReqU32(v, "prompt_tokens") /\ ReqU32(v, "completion_tokens")

UsageOf(v) ==
    [prompt_tokens |-> v.v["prompt_tokens"].v,
     completion_tokens |-> v.v["completion_tokens"].v]

UsageJson(u) ==
    JObj([prompt_tokens |-> JNum(u.prompt_tokens),
          completion_tokens |-> JNum(u.completion_tokens)])

\* serde_json::Error
SerdeError == [kind |-> "serde_json::Error"]

\* serde_json::from_str::<SolutionV1>, types.rs:58-69
ParseSolution(raw) ==
    IF /\ raw.json
       /\ raw.value.t = "obj"
       /\ ReqStr(raw.value, "schema_version")
       /\ ReqStr(raw.value, "task_id")
       /\ ReqStr(raw.value, "solution_id")
       /\ ReqObj(raw.value, "model_used")
       /\ ModelUsedOk(raw.value.v["model_used"])
       /\ ReqEnum(raw.value, "deliverable_type", DeliverableTypes)
       /\ ReqObj(raw.value, "deliverable")
       /\ DeliverableOk(raw.value.v["deliverable"])
       /\ ReqObj(raw.value, "evidence")
       /\ EvidenceOk(raw.value.v["evidence"])
       /\ ReqObj(raw.value, "usage")
       /\ UsageOk(raw.value.v["usage"])
       /\ ReqStr(raw.value, "created_at")
    THEN Ok([schema_version |-> raw.value.v["schema_version"].v,
             task_id |-> raw.value.v["task_id"].v,
             solution_id |-> raw.value.v["solution_id"].v,
             model_used |-> ModelUsedOf(raw.value.v["model_used"]),
             deliverable_type |-> raw.value.v["deliverable_type"].v,
             deliverable |-> DeliverableOf(raw.value.v["deliverable"]),
             evidence |-> EvidenceOf(raw.value.v["evidence"]),
             usage |-> UsageOf(raw.value.v["usage"]),
             created_at |-> raw.value.v["created_at"].v])
    ELSE Err(SerdeError)

\* SerializeSolution writing the fixed literal instead of the field
SerializeSolution_fixed_version(sol) ==
    JsonText(JObj([schema_version |-> JStr("solution_v1"),
                   task_id |-> JStr(sol.task_id),
                   solution_id |-> JStr(sol.solution_id),
                   model_used |-> ModelUsedJson(sol.model_used),
                   deliverable_type |-> JStr(sol.deliverable_type),
                   deliverable |-> DeliverableJson(sol.deliverable),
                   evidence |-> EvidenceJson(sol.evidence),
                   usage |-> UsageJson(sol.usage),
                   created_at |-> JStr(sol.created_at)]))

\* serde_json::to_string_pretty(&solution), types.rs:58-69
SerializeSolution(sol) ==
    JsonText(JObj([schema_version |-> JStr(sol.schema_version),
                   task_id |-> JStr(sol.task_id),
                   solution_id |-> JStr(sol.solution_id),
                   model_used |-> ModelUsedJson(sol.model_used),
                   deliverable_type |-> JStr(sol.deliverable_type),
                   deliverable |-> DeliverableJson(sol.deliverable),
                   evidence |-> EvidenceJson(sol.evidence),
                   usage |-> UsageJson(sol.usage),
                   created_at |-> JStr(sol.created_at)]))

\* CheckResult, types.rs:93-102
CheckOk(v) ==
    /\ v.t = "obj"
    /\ ReqStr(v, "criterion")
    /\ Has(v, "pass") /\ v.v["pass"].t = "bool"
    /\ ReqStr(v, "reason")
    /\ ReqEnum(v, "severity", Severities)
    /\ OptStrOk(v, "suggested_fix")

CheckOf(v) ==
    [criterion |-> v.v["criterion"].v,
     pass_ |-> v.v["pass"].v,
     reason |-> v.v["reason"].v,
     severity |-> v.v["severity"].v,
     suggested_fix |-> OptStr(v, "suggested_fix")]

CheckJson(c) ==
    JObj([criterion |-> JStr(c.criterion),
          pass |-> JBool(c.pass_),
          reason |-> JStr(c.reason),
          severity |-> JStr(c.severity)]
         @@ Key("suggested_fix", c.suggested_fix.some,
                IF c.suggested_fix.some THEN JStr(c.suggested_fix.val) ELSE JNull))

\* ParseValidation taking one check only
ParseValidation_one_check(raw) ==
    IF /\ raw.json
       /\ raw.value.t = "obj"
       /\ ReqStr(raw.value, "schema_version")
       /\ ReqStr(raw.value, "task_id")
       /\ ReqStr(raw.value, "solution_id")
       /\ ReqEnum(raw.value, "verdict", Verdicts)
       /\ ReqNum(raw.value, "score")
       /\ Has(raw.value, "checks")
       /\ raw.value.v["checks"].t = "arr"
       /\ Len(raw.value.v["checks"].v) = 1
       /\ \A i \in 1..Len(raw.value.v["checks"].v) : CheckOk(raw.value.v["checks"].v[i])
       /\ ReqObj(raw.value, "model_used")
       /\ ModelUsedOk(raw.value.v["model_used"])
       /\ ReqStr(raw.value, "created_at")
    THEN Ok([schema_version |-> raw.value.v["schema_version"].v,
             task_id |-> raw.value.v["task_id"].v,
             solution_id |-> raw.value.v["solution_id"].v,
             verdict |-> raw.value.v["verdict"].v,
             score |-> raw.value.v["score"].v,
             checks |-> [i \in 1..Len(raw.value.v["checks"].v) |->
                           CheckOf(raw.value.v["checks"].v[i])],
             suggested_rewrite |->
                 IF Has(raw.value, "suggested_rewrite")
                    /\ raw.value.v["suggested_rewrite"].t # "null"
                 THEN Some(raw.value.v["suggested_rewrite"]) ELSE None,
             model_used |-> ModelUsedOf(raw.value.v["model_used"]),
             created_at |-> raw.value.v["created_at"].v])
    ELSE Err(SerdeError)

\* serde_json::from_str::<ValidationV1>, types.rs:104-116
ParseValidation(raw) ==
    IF /\ raw.json
       /\ raw.value.t = "obj"
       /\ ReqStr(raw.value, "schema_version")
       /\ ReqStr(raw.value, "task_id")
       /\ ReqStr(raw.value, "solution_id")
       /\ ReqEnum(raw.value, "verdict", Verdicts)
       /\ ReqNum(raw.value, "score")
       /\ Has(raw.value, "checks")
       /\ raw.value.v["checks"].t = "arr"
       /\ \A i \in 1..Len(raw.value.v["checks"].v) : CheckOk(raw.value.v["checks"].v[i])
       /\ ReqObj(raw.value, "model_used")
       /\ ModelUsedOk(raw.value.v["model_used"])
       /\ ReqStr(raw.value, "created_at")
    THEN Ok([schema_version |-> raw.value.v["schema_version"].v,
             task_id |-> raw.value.v["task_id"].v,
             solution_id |-> raw.value.v["solution_id"].v,
             verdict |-> raw.value.v["verdict"].v,
             score |-> raw.value.v["score"].v,
             checks |-> [i \in 1..Len(raw.value.v["checks"].v) |->
                           CheckOf(raw.value.v["checks"].v[i])],
             suggested_rewrite |->
                 IF Has(raw.value, "suggested_rewrite")
                    /\ raw.value.v["suggested_rewrite"].t # "null"
                 THEN Some(raw.value.v["suggested_rewrite"]) ELSE None,
             model_used |-> ModelUsedOf(raw.value.v["model_used"]),
             created_at |-> raw.value.v["created_at"].v])
    ELSE Err(SerdeError)

\* serde_json::to_string_pretty(&validation), types.rs:104-116
SerializeValidation(val) ==
    JsonText(JObj([schema_version |-> JStr(val.schema_version),
                   task_id |-> JStr(val.task_id),
                   solution_id |-> JStr(val.solution_id),
                   verdict |-> JStr(val.verdict),
                   score |-> JNum(val.score),
                   checks |-> JArr([i \in 1..Len(val.checks) |-> CheckJson(val.checks[i])]),
                   model_used |-> ModelUsedJson(val.model_used),
                   created_at |-> JStr(val.created_at)]
                  @@ Key("suggested_rewrite", val.suggested_rewrite.some,
                         IF val.suggested_rewrite.some
                         THEN val.suggested_rewrite.val ELSE JNull)))

(***************************************************************************)
(* The repair step of the stages.                                          *)
(***************************************************************************)
\* str::is_empty
is_empty(str) == str = ""

\* str::trim, on the strings of the model
trim(str) == IF str \in {"", " ", "  "} THEN "" ELSE str

\* repair_solution stamping the artifact whatever it carries
repair_solution_restamp(solution, now) ==
    [solution EXCEPT
        !.schema_version = IF is_empty(@) THEN "solution_v1" ELSE @,
        !.created_at = now]

\* producer.rs:91-97
repair_solution(solution, now) ==
    [solution EXCEPT
        !.schema_version = IF is_empty(@) THEN "solution_v1" ELSE @,
        !.created_at = IF is_empty(trim(@)) THEN now ELSE @]

\* repair_validation dropping the checks as well
repair_validation_no_checks(validation, now) ==
    [validation EXCEPT
        !.schema_version = IF is_empty(@) THEN "validation_v1" ELSE @,
        !.created_at = IF is_empty(trim(@)) THEN now ELSE @,
        !.checks = <<>>]

\* auditor.rs:97-102
repair_validation(validation, now) ==
    [validation EXCEPT
        !.schema_version = IF is_empty(@) THEN "validation_v1" ELSE @,
        !.created_at = IF is_empty(trim(@)) THEN now ELSE @]

\* Utc::now().to_rfc3339(), at the times a stage may run
Timestamps == {"2025-06-01T00:00:00+00:00", "2025-06-01T00:00:07+00:00"}

(***************************************************************************)
(* AgentError, agents/mod.rs:3-13, and the results of the stages.          *)
(***************************************************************************)
Llm(e) == [kind |-> "Llm", source |-> e]
Io(op) == [kind |-> "Io", op |-> op]
Serde == [kind |-> "Serde", source |-> SerdeError]
Unexpected(m) == [kind |-> "Unexpected", message |-> m]

\* tokio::fs::write: it may fail before the file is opened, or after it
\* was truncated
WriteOutcomes == {"ok", "open_failed", "truncated"}

\* the content of a file after fs::write(path, text)
written(old, text, how) ==
    CASE how = "ok" -> Some(text)
      [] how = "truncated" -> Some(NotJson(""))
      [] OTHER -> old

\* producer_finish dropping the result of fs::write
producer_finish_write_unchecked(call, old, now, how) ==
    IF ~call.result.ok
    THEN [result |-> Err(Llm(call.result.err)), file |-> old, writes |-> <<>>]
    ELSE LET parsed == ParseSolution(call.result.val) IN
         IF ~parsed.ok
         THEN [result |-> Err(Serde), file |-> old, writes |-> <<>>]
         ELSE LET solution == repair_solution(parsed.val, now)
                  pretty == SerializeSolution(solution) IN
              [result |-> Ok(solution), file |-> written(old, pretty, how),
               writes |-> <<[text |-> pretty, how |-> how]>>]

\* producer_finish saving the raw reply before it decodes it
producer_finish_write_first(call, old, now, how) ==
    IF ~call.result.ok
    THEN [result |-> Err(Llm(call.result.err)), file |-> old, writes |-> <<>>]
    ELSE LET parsed == ParseSolution(call.result.val)
             saved == written(old, call.result.val, "ok") IN
         IF ~parsed.ok
         THEN [result |-> Err(Serde), file |-> saved,
               writes |-> <<[text |-> call.result.val, how |-> "ok"]>>]
         ELSE LET solution == repair_solution(parsed.val, now)
                  pretty == SerializeSolution(solution) IN
              [result |-> IF how = "ok" THEN Ok(solution) ELSE Err(Io("write")),
               file |-> written(saved, pretty, how),
               writes |-> <<[text |-> call.result.val, how |-> "ok"],
                            [text |-> pretty, how |-> how]>>]

\* ProducerAgent::execute from the reply on, producer.rs:87-107: the
\* Solution to return, the new content of the output file and the calls of
\* fs::write it made
producer_finish(call, old, now, how) ==
    IF ~call.result.ok
    THEN [result |-> Err(Llm(call.result.err)), file |-> old, writes |-> <<>>]
    ELSE LET parsed == ParseSolution(call.result.val) IN
         IF ~parsed.ok
         THEN [result |-> Err(Serde), file |-> old, writes |-> <<>>]
         ELSE LET solution == repair_solution(parsed.val, now)
                  pretty == SerializeSolution(solution) IN
              [result |-> IF how = "ok" THEN Ok(solution) ELSE Err(Io("write")),
               file |-> written(old, pretty, how),
               writes |-> <<[text |-> pretty, how |-> how]>>]

\* auditor_finish reporting a failed request as a reply that does not decode
auditor_finish_llm_as_serde(call, old, now, how) ==
    IF ~call.result.ok
    THEN [result |-> Err(Serde), file |-> old, writes |-> <<>>]
    ELSE LET parsed == ParseValidation(call.result.val) IN
         IF ~parsed.ok
         THEN [result |-> Err(Serde), file |-> old, writes |-> <<>>]
         ELSE LET validation == repair_validation(parsed.val, now)
                  pretty == SerializeValidation(validation) IN
              [result |-> IF how = "ok" THEN Ok(validation) ELSE Err(Io("write")),
               file |-> written(old, pretty, how),
               writes |-> <<[text |-> pretty, how |-> how]>>]

\* AuditorAgent::execute from the reply on, auditor.rs:94-111
auditor_finish(call, old, now, how) ==
    IF ~call.result.ok
    THEN [result |-> Err(Llm(call.result.err)), file |-> old, writes |-> <<>>]
    ELSE LET parsed == ParseValidation(call.result.val) IN
         IF ~parsed.ok
         THEN [result |-> Err(Serde), file |-> old, writes |-> <<>>]
         ELSE LET validation == repair_validation(parsed.val, now)
                  pretty == SerializeValidation(validation) IN
              [result |-> IF how = "ok" THEN Ok(validation) ELSE Err(Io("write")),
               file |-> written(old, pretty, how),
               writes |-> <<[text |-> pretty, how |-> how]>>]

(***************************************************************************)
(* The tasks of the model and what a model may answer to the stages.       *)
(***************************************************************************)
\* demo_task_spec, main.rs:107-122
DemoTask ==
    [task_id |-> "task-1",
     goal |-> "Summarize the input text into exactly 3 crisp bullet points",
     input |-> "DeepSeek Agents demo",
     acceptance_criteria |->
         <<"exactly 3 bullets", "<= 80 words total", "no marketing fluff">>,
     deliverable_type |-> "text",
     hints |-> Some("Be concise")]

CodeTask ==
    [task_id |-> "task-2", goal |-> "Write hello world", input |-> "",
     acceptance_criteria |-> <<"compiles">>,
     deliverable_type |-> "code", hints |-> None]

Tasks == {DemoTask, CodeTask}

\* a reply of the Solution shape with the given bookkeeping fields
SolutionReply(version, created, deliverable) ==
    JsonText(JObj([schema_version |-> JStr(version),
                   task_id |-> JStr("task-1"),
                   solution_id |-> JStr("sol-1"),
                   model_used |-> JObj([name |-> JStr("deepseek-chat"),
                                        temperature |-> JNum(2)]),
                   deliverable_type |-> JStr("text"),
                   deliverable |-> deliverable,
                   evidence |-> JObj([system_prompt |-> JStr("You are Agent 1")]),
                   usage |-> JObj([prompt_tokens |-> JNum(100),
                                   completion_tokens |-> JNum(20)]),
                   created_at |-> JStr(created)]))

TextDeliverable == JObj([text |-> JStr("- a - b - c")])

\* a Solution reply without its schema_version key
SolutionReplyNoVersion ==
    JsonText(JObj([task_id |-> JStr("task-1"), solution_id |-> JStr("sol-1"),
                   created_at |-> JStr("2025-05-31T23:59:59Z")]))

\* the text of a JSON object without one of its keys
Omitting(raw, key) ==
    JsonText(JObj([k \in DOMAIN raw.value.v \ {key} |-> raw.value.v[k]]))

\* the text of a JSON object with another value under one of its keys
Replacing(raw, key, value) ==
    JsonText(JObj([raw.value.v EXCEPT ![key] = value]))

GoodSolutionReply == SolutionReply("solution_v1", "2025-05-31T23:59:59Z", TextDeliverable)

CodeDeliverable ==
    JObj([code |-> JObj([language |-> JStr("rust"), content |-> JStr("fn main() {}")])])

\* a deliverable with no variant, and one with two
NoDeliverable == JObj(<<>>)
TwoDeliverables ==
    JObj([text |-> JStr("- a - b - c"),
          code |-> JObj([language |-> JStr("rust"), content |-> JStr("fn main() {}")])])

ProducerContents ==
    {GoodSolutionReply,
     SolutionReply("", "", TextDeliverable),
     SolutionReply(" ", "  ", TextDeliverable),
     SolutionReply("solution_v2", "2025-05-31T23:59:59Z", TextDeliverable),
     Omitting(GoodSolutionReply, "schema_version"),
     Omitting(GoodSolutionReply, "created_at"),
     Replacing(SolutionReply("solution_v1", "2025-05-31T23:59:59Z", CodeDeliverable),
               "deliverable_type", JStr("code")),
     SolutionReply("solution_v1", "2025-05-31T23:59:59Z", NoDeliverable),
     SolutionReply("solution_v1", "2025-05-31T23:59:59Z", TwoDeliverables),
     SolutionReply("solution_v1", "2025-05-31T23:59:59Z", CodeDeliverable),
     SolutionReplyNoVersion,
     NotJson("Here is your solution")}

PassCheck(criterion) ==
    JObj([criterion |-> JStr(criterion), pass |-> JBool(TRUE),
          reason |-> JStr("ok"), severity |-> JStr("minor")])

\* a reply of the Validation shape with the given bookkeeping fields
ValidationReply(version, created, checks) ==
    JsonText(JObj([schema_version |-> JStr(version),
                   task_id |-> JStr("task-1"),
                   solution_id |-> JStr("sol-1"),
                   verdict |-> JStr("pass"),
                   score |-> JNum(9),
                   checks |-> JArr(checks),
                   model_used |-> JObj([name |-> JStr("deepseek-reasoner"),
                                        temperature |-> JNum(0)]),
                   created_at |-> JStr(created)]))

ThreeChecks ==
    <<PassCheck("exactly 3 bullets"), PassCheck("<= 80 words total"),
      PassCheck("no marketing fluff")>>

GoodValidationReply == ValidationReply("validation_v1", "2025-06-01T00:00:01Z", ThreeChecks)

AuditorContents ==
    {GoodValidationReply,
     ValidationReply("", "", ThreeChecks),
     ValidationReply(" ", "  ", ThreeChecks),
     ValidationReply("validation_v9", "2025-06-01T00:00:01Z", ThreeChecks),
     Omitting(GoodValidationReply, "schema_version"),
     Omitting(GoodValidationReply, "created_at"),
     Replacing(GoodValidationReply, "solution_id", JStr("sol-9")),
     NotJson("The solution passes")}

(***************************************************************************)
(* DeepSeekClient::send_request, deepseek.rs:203-228.                      *)
(***************************************************************************)
max_attempts == 3

initial_backoff == 500

\* saturating_mul leaving the backoff as it was
saturating_mul_lost(d, k) == d

\* Duration::saturating_mul(2): the bound, Duration::MAX, is out of reach of
\* three attempts
saturating_mul(d, k) == d * k

\* should_retry with the attempt bound off by one
should_retry_one_more(e, n) ==
    (is_server_busy(e) \/ is_network_error(e)) /\ n < max_attempts

\* should_retry retrying whatever the error
should_retry_any_error(e, n) == n < max_attempts - 1

\* should_retry without the bound on the attempts
should_retry_unbounded(e, n) == is_server_busy(e) \/ is_network_error(e)

\* the guard of the retry arm, deepseek.rs:212-213
should_retry(e, n) ==
    (is_server_busy(e) \/ is_network_error(e)) /\ n < max_attempts - 1

\* the HTTP status an attempt saw, 0 when no response came
StatusOf(outcome) == IF outcome.type = "response" THEN outcome.status ELSE 0

\* how an attempt ended: "Ok", or the kind of its error
KindOf(r) == IF r.ok THEN "Ok" ELSE r.err.kind

AttemptEvent(outcome, r) ==
    [type |-> "attempt", status |-> StatusOf(outcome), kind |-> KindOf(r)]
SleepEvent(ms) == [type |-> "sleep", ms |-> ms]
NoResult == [returned |-> FALSE]
Returned(r) == [returned |-> TRUE, result |-> r]

vars == <<pc, feature, config, clients, newResult, newLog, attempts, backoff, events,
          srResult, lastCall, task, requests, inflight, dirs, mkdirs, files,
          filesBefore, writes, produced, audited, pipeResult, roundTrip, consoleProducer,
          consoleRun>>

retryVars == <<attempts, backoff, events, srResult>>
pipeVars == <<task, requests, inflight, dirs, mkdirs, files, filesBefore, writes, produced,
              audited, pipeResult>>

\* what a stage finds at its output path: nothing, or the file of an
\* earlier run
StaleFile == NotJson("left by an earlier run")

\* the output files before the program starts
OutDirs == {[solution |-> None, validation |-> None],
            [solution |-> Some(StaleFile), validation |-> Some(StaleFile)]}

\* Console::run before its first input
NoConsoleRun == [inputs |-> 0, displayed |-> 0, ended |-> "no", interruptedAt |-> "none"]

\* run_producer_agent has not been called
NoConsoleProducer == [produced |-> NoResult, result |-> NoResult]

\* no value is being serialized
NoRoundTrip == [kind |-> "none"]

Init ==
    /\ pc = "start"
    /\ feature \in BOOLEAN
    /\ config \in Configs
    /\ clients = [chat |-> None, reasoner |-> None]
    /\ newResult = NoResult
    /\ newLog = <<>>
    /\ attempts = 0
    /\ backoff = 0
    /\ events = <<>>
    /\ srResult = NoResult
    /\ lastCall = NoCall
    /\ task = None
    /\ requests = <<>>
    /\ inflight = {}
    /\ dirs = {}
    /\ mkdirs = <<>>
    /\ files \in OutDirs
    /\ filesBefore = files
    /\ writes = <<>>
    /\ produced = NoResult
    /\ audited = NoResult
    /\ pipeResult = NoResult
    /\ roundTrip = NoRoundTrip
    /\ consoleProducer = NoConsoleProducer
    /\ consoleRun = NoConsoleRun

\* DeepSeekClient::new(config), as main.rs:50 calls it for the chat client
ClientNew ==
    /\ pc = "start"
    /\ \E httpBuilds \in BOOLEAN, sdkBuilds \in BOOLEAN :
         LET r == new(feature, config, httpBuilds, sdkBuilds) IN
         /\ newResult' = Returned(r)
         /\ newLog' = Append(newLog, NewCall(feature, config, httpBuilds, sdkBuilds))
         /\ clients' = [clients EXCEPT !.chat = IF r.ok THEN Some(r.val) ELSE None]
         /\ pc' = IF r.ok THEN "ready" ELSE "new_failed"
    /\ lastCall' = NoCall
    /\ UNCHANGED <<roundTrip, consoleProducer, consoleRun, feature, config, retryVars, pipeVars>>

\* Console::run has read an input to send, console/mod.rs:86-104, and
\* send_request is called: deepseek.rs:204-206
SendRequestCall ==
    /\ pc = "ready"
    /\ consoleRun.inputs < MaxInputs
    /\ consoleRun' = [consoleRun EXCEPT !.inputs = @ + 1]
    /\ attempts' = 0
    /\ backoff' = initial_backoff
    /\ events' = <<>>
    /\ srResult' = NoResult
    /\ pc' = "sr_attempt"
    /\ lastCall' = NoCall
    /\ UNCHANGED <<roundTrip, consoleProducer, feature, config, clients, newResult, newLog, pipeVars>>

\* one turn of the loop up to its await or return: deepseek.rs:209-226
SendRequestAttempt ==
    /\ pc = "sr_attempt"
    /\ \E outcome \in RemoteOutcomes(ChatContents) :
         LET client == clients.chat.val
             r == send_request_once(client, outcome) IN
         /\ lastCall' = Call(client, outcome)
         /\ events' = Append(events, AttemptEvent(outcome, r))
         /\ IF r.ok
            THEN /\ srResult' = Returned(r)
                 /\ pc' = "sr_done"
                 /\ UNCHANGED attempts
            ELSE IF should_retry(r.err, attempts)
            THEN /\ attempts' = attempts + 1
                 /\ pc' = "sr_sleep"
                 /\ UNCHANGED srResult
            ELSE /\ srResult' = Returned(r)
                 /\ pc' = "sr_done"
                 /\ UNCHANGED attempts
    /\ UNCHANGED <<roundTrip, consoleProducer, consoleRun, feature, config, clients, newResult, newLog, backoff, pipeVars>>

\* tokio::time::sleep(backoff) ends and the backoff doubles: deepseek.rs:222-223
SendRequestWake ==
    /\ pc = "sr_sleep"
    /\ events' = Append(events, SleepEvent(backoff))
    /\ backoff' = saturating_mul(backoff, 2)
    /\ pc' = "sr_attempt"
    /\ lastCall' = NoCall
    /\ UNCHANGED <<roundTrip, consoleProducer, consoleRun, feature, config, clients, newResult, newLog, attempts, srResult, pipeVars>>

(***************************************************************************)
(* Console::run, console/mod.rs:71-130: the loop around send_request.  At  *)
(* "ready" the loop awaits an input or an interrupt; while send_request    *)
(* is in flight (at an attempt or in a backoff sleep) the inner select!    *)
(* awaits its return or an interrupt.                                      *)
(***************************************************************************)
\* send_request returned and its result is displayed, console/mod.rs:111-119;
\* the loop then awaits the next input
ConsoleDisplay ==
    /\ pc = "sr_done"
    /\ consoleRun' = [consoleRun EXCEPT !.displayed = @ + 1]
    /\ attempts' = 0
    /\ backoff' = 0
    /\ events' = <<>>
    /\ srResult' = NoResult
    /\ pc' = "ready"
    /\ lastCall' = NoCall
    /\ UNCHANGED <<roundTrip, consoleProducer, feature, config, clients, newResult, newLog,
                   pipeVars>>

\* the input is a quit command, console/mod.rs:97-100
ConsoleQuit ==
    /\ pc = "ready"
    /\ consoleRun' = [consoleRun EXCEPT !.ended = "goodbye"]
    /\ pc' = "console_exit"
    /\ lastCall' = NoCall
    /\ UNCHANGED <<roundTrip, consoleProducer, feature, config, clients, newResult, newLog,
                   retryVars, pipeVars>>

\* after_interrupt letting the request go on
after_interrupt_resume(at) == at

\* where the loop goes when ctrl_c wins a select!: both arms break,
\* console/mod.rs:81-84, 106-110
after_interrupt(at) == "console_exit"

\* tokio::signal::ctrl_c() wins the select! the loop is waiting in: the outer
\* one during the input wait, console/mod.rs:81-84, the inner one while
\* send_request is in flight, console/mod.rs:106-110, which drops the
\* send_request future
ConsoleInterrupt ==
    /\ pc \in {"ready", "sr_attempt", "sr_sleep"}
    /\ consoleRun' = [consoleRun EXCEPT
                         !.ended = IF pc = "ready" THEN "goodbye" ELSE "cancelled",
                         !.interruptedAt = pc]
    /\ pc' = after_interrupt(pc)
    /\ lastCall' = NoCall
    /\ UNCHANGED <<roundTrip, consoleProducer, feature, config, clients, newResult, newLog,
                   retryVars, pipeVars>>

(***************************************************************************)
(* Orchestrator, orchestrator.rs.                                          *)
(***************************************************************************)
\* the reasoner configuration, orchestrator.rs:21-22
reasoner_cfg(base_cfg) == [base_cfg EXCEPT !.model = "deepseek-reasoner"]

\* Orchestrator::new, orchestrator.rs:18-29
OrchestratorNew ==
    /\ pc = "start"
    /\ \E http1 \in BOOLEAN, sdk1 \in BOOLEAN, http2 \in BOOLEAN, sdk2 \in BOOLEAN :
         LET chat == new(feature, config, http1, sdk1)
             reasoner == new(feature, reasoner_cfg(config), http2, sdk2) IN
         IF ~chat.ok
         THEN /\ newResult' = Returned(chat)
              /\ newLog' = Append(newLog, NewCall(feature, config, http1, sdk1))
              /\ pc' = "new_failed"
              /\ UNCHANGED clients
         ELSE IF ~reasoner.ok
         THEN /\ newResult' = Returned(reasoner)
              /\ newLog' = newLog
                    \o <<NewCall(feature, config, http1, sdk1),
                         NewCall(feature, reasoner_cfg(config), http2, sdk2)>>
              /\ pc' = "new_failed"
              /\ UNCHANGED clients
         ELSE /\ newResult' = Returned(Ok([orchestrator |-> TRUE]))
              /\ newLog' = newLog
                    \o <<NewCall(feature, config, http1, sdk1),
                         NewCall(feature, reasoner_cfg(config), http2, sdk2)>>
              /\ clients' = [chat |-> Some(chat.val), reasoner |-> Some(reasoner.val)]
              /\ pc' = "orch_ready"
    /\ lastCall' = NoCall
    /\ UNCHANGED <<roundTrip, consoleProducer, consoleRun, feature, config, retryVars, pipeVars>>

\* the request a stage hands to its client: the model of the client's
\* configuration and the user payload, producer.rs:76-87, auditor.rs:78-94
Request(stage, client, payload) ==
    [stage |-> stage, model |-> client.config.model, payload |-> payload]

\* the directory the run writes into, the out_dir argument of run_pipeline
\* and run_producer_agent
OutDir == "out"

\* out_dir.join(file), orchestrator.rs:47-48 and console/mod.rs:198
out_path(dir, file) == [dir |-> Some(dir), file |-> file]

\* output paths that have no parent: the empty path and the root
OrphanPaths == {[dir |-> None, file |-> ""], [dir |-> None, file |-> "/"]}

\* Path::parent() as the stages call it, producer.rs:34-35
parent(path) == path.dir

\* one create_dir_all call: who made it, on what, and whether it succeeded
Mkdir(by, dir, ok) == [by |-> by, dir |-> dir, ok |-> ok]

\* execute_begin issuing the request whatever became of the directory
execute_begin_request_first(path, dirOk) ==
    IF ~parent(path).some
    THEN [requested |-> TRUE, called |-> FALSE, created |-> {},
          result |-> Err(Unexpected("invalid output path"))]
    ELSE [requested |-> TRUE, called |-> TRUE,
          created |-> IF dirOk THEN {parent(path).val} ELSE {},
          result |-> IF dirOk THEN Ok(parent(path).val) ELSE Err(Io("create_dir_all"))]

\* the head of a stage's execute, producer.rs:32-38 and auditor.rs:37-46:
\* parent() of the output path, `?` on its absence, create_dir_all, `?` on
\* its failure; only then does the stage go on to build and send its request
execute_begin(path, dirOk) ==
    IF ~parent(path).some
    THEN [requested |-> FALSE, called |-> FALSE, created |-> {},
          result |-> Err(Unexpected("invalid output path"))]
    ELSE [requested |-> dirOk, called |-> TRUE,
          created |-> IF dirOk THEN {parent(path).val} ELSE {},
          result |-> IF dirOk THEN Ok(parent(path).val) ELSE Err(Io("create_dir_all"))]

\* the create_dir_all calls a stage's head makes
StageMkdirs(stage, begin) ==
    IF begin.called THEN <<Mkdir(stage, OutDir, begin.result.ok)>> ELSE <<>>

\* run_pipeline up to agent1.execute: orchestrator.rs:39-56
RunPipeline ==
    /\ pc = "orch_ready"
    /\ \E t \in Tasks, dirOk \in BOOLEAN :
         /\ task' = Some(t)
         /\ requests' = <<>>
         /\ writes' = <<>>
         /\ filesBefore' = files
         /\ produced' = NoResult
         /\ audited' = NoResult
         /\ mkdirs' = <<Mkdir("run_pipeline", OutDir, dirOk)>>
         /\ IF dirOk
            THEN /\ dirs' = dirs \cup {OutDir}
                 /\ pipeResult' = NoResult
                 /\ pc' = "producer_begin"
            ELSE /\ pipeResult' = Returned(Err(Io("create_dir_all")))
                 /\ pc' = "pipeline_done"
                 /\ UNCHANGED dirs
    /\ lastCall' = NoCall
    /\ UNCHANGED <<roundTrip, consoleProducer, consoleRun, feature, config, clients, newResult, newLog, retryVars, inflight, files>>

\* ProducerAgent::execute up to the await of its request: producer.rs:31-87.
\* The output path is out_dir/solution.json, whose parent is out_dir.
ProducerBegin ==
    /\ pc = "producer_begin"
    /\ \E dirOk \in BOOLEAN :
         LET begin == execute_begin(out_path(OutDir, "solution.json"), dirOk) IN
         /\ dirs' = dirs \cup begin.created
         /\ mkdirs' = mkdirs \o StageMkdirs("producer", begin)
         /\ IF begin.requested
            THEN /\ requests' = Append(requests,
                       Request("producer", clients.chat.val, [task_spec |-> task.val]))
                 /\ inflight' = inflight \cup {"producer"}
                 /\ pc' = "producer_wait"
                 /\ UNCHANGED <<produced, pipeResult>>
            ELSE /\ produced' = Returned(begin.result)
                 /\ pipeResult' = Returned(begin.result)
                 /\ pc' = "pipeline_done"
                 /\ UNCHANGED <<requests, inflight>>
    /\ lastCall' = NoCall
    /\ UNCHANGED <<roundTrip, consoleProducer, consoleRun, feature, config, clients, newResult, newLog, retryVars, task, files,
                   filesBefore, writes, audited>>

\* after_producer running the stage again after a failure
after_producer_retry(result) == IF result.ok THEN "auditor_begin" ELSE "producer_begin"

\* run_pipeline's `?` on the Producer's result, orchestrator.rs:56: where the
\* run goes next
after_producer(result) == IF result.ok THEN "auditor_begin" ELSE "pipeline_done"

\* ProducerAgent::execute from the reply to its return, producer.rs:87-107,
\* and run_pipeline's `?` on it, orchestrator.rs:56
ProducerComplete ==
    /\ pc = "producer_wait"
    /\ \E outcome \in StageOutcomes(ProducerContents), now \in Timestamps,
          how \in WriteOutcomes :
         LET call == Call(clients.chat.val, outcome)
             fin == producer_finish(call, files.solution, now, how) IN
         /\ lastCall' = call
         /\ inflight' = inflight \ {"producer"}
         /\ files' = [files EXCEPT !.solution = fin.file]
         /\ writes' = writes \o [i \in 1..Len(fin.writes) |->
                                    [path |-> "solution", text |-> fin.writes[i].text,
                                     how |-> fin.writes[i].how]]
         /\ produced' = Returned(fin.result)
         /\ pc' = after_producer(fin.result)
         /\ pipeResult' = IF pc' = "pipeline_done" THEN Returned(fin.result)
                          ELSE pipeResult
    /\ UNCHANGED <<roundTrip, consoleProducer, consoleRun, feature, config, clients, newResult, newLog, retryVars, task, requests,
                   dirs, mkdirs, filesBefore, audited>>

\* AuditorAgent::execute up to the await of its request: auditor.rs:36-94,
\* called with the Producer's Solution, orchestrator.rs:65-75
AuditorBegin ==
    /\ pc = "auditor_begin"
    /\ \E dirOk \in BOOLEAN :
         LET begin == execute_begin(out_path(OutDir, "validation.json"), dirOk) IN
         /\ dirs' = dirs \cup begin.created
         /\ mkdirs' = mkdirs \o StageMkdirs("auditor", begin)
         /\ IF begin.requested
            THEN /\ requests' = Append(requests,
                       Request("auditor", clients.reasoner.val,
                               [task_spec |-> task.val, solution |-> produced.result.val]))
                 /\ inflight' = inflight \cup {"auditor"}
                 /\ pc' = "auditor_wait"
                 /\ UNCHANGED <<audited, pipeResult>>
            ELSE /\ audited' = Returned(begin.result)
                 /\ pipeResult' = Returned(begin.result)
                 /\ pc' = "pipeline_done"
                 /\ UNCHANGED <<requests, inflight>>
    /\ lastCall' = NoCall
    /\ UNCHANGED <<roundTrip, consoleProducer, consoleRun, feature, config, clients, newResult, newLog, retryVars, task, files,
                   filesBefore, writes, produced>>

\* run_pipeline returning a pair even though the Auditor failed
run_pipeline_return_pair(solution, validation) ==
    Ok([solution |-> solution, validation |-> validation])

\* what run_pipeline returns once the Auditor has returned: its `?` on the
\* Auditor's result and the final pair, orchestrator.rs:75-93
run_pipeline_return(solution, validation) ==
    IF validation.ok
    THEN Ok([solution |-> solution, validation |-> validation.val])
    ELSE validation

\* AuditorAgent::execute from the reply to its return, auditor.rs:94-111,
\* and the return of run_pipeline, orchestrator.rs:75-93
AuditorComplete ==
    /\ pc = "auditor_wait"
    /\ \E outcome \in StageOutcomes(AuditorContents), now \in Timestamps,
          how \in WriteOutcomes :
         LET call == Call(clients.reasoner.val, outcome)
             fin == auditor_finish(call, files.validation, now, how) IN
         /\ lastCall' = call
         /\ inflight' = inflight \ {"auditor"}
         /\ files' = [files EXCEPT !.validation = fin.file]
         /\ writes' = writes \o [i \in 1..Len(fin.writes) |->
                                    [path |-> "validation", text |-> fin.writes[i].text,
                                     how |-> fin.writes[i].how]]
         /\ audited' = Returned(fin.result)
         /\ pipeResult' = Returned(run_pipeline_return(produced.result.val, fin.result))
         /\ pc' = "pipeline_done"
    /\ UNCHANGED <<roundTrip, consoleProducer, consoleRun, feature, config, clients, newResult, newLog, retryVars, task, requests,
                   dirs, mkdirs, filesBefore, produced>>

(***************************************************************************)
(* The interactive entry point: Orchestrator::run_console_producer,        *)
(* orchestrator.rs:31-37, and Console::run_producer_agent,                 *)
(* console/mod.rs:187-223.                                                 *)
(***************************************************************************)
\* the unit value of Ok(())
Unit == [unit |-> TRUE]

\* the error of a prompt that could not be read
InputError == [kind |-> "Input"]

\* console_client taking the reasoning client
console_client_reasoner(owned) == owned.reasoner.val

\* the client the console is built with: Console::new(self.chat_client.clone()),
\* orchestrator.rs:35
console_client(owned) == owned.chat.val

\* what run_producer_agent returns after its `match agent.execute(..)`,
\* console/mod.rs:202-222: the error arm displays the error and falls
\* through to Ok(())
run_producer_agent_return(result) == Ok(Unit)

\* run_console_producer up to agent.execute: collect_task_spec and
\* create_dir_all(out_dir), console/mod.rs:194-200
RunConsoleProducer ==
    /\ pc = "orch_ready"
    /\ \E collected \in {Err(InputError)} \cup {Ok(t) : t \in Tasks}, dirOk \in BOOLEAN :
         /\ requests' = <<>>
         /\ writes' = <<>>
         /\ filesBefore' = files
         /\ IF ~collected.ok
            THEN /\ consoleProducer' = [produced |-> NoResult, result |-> Returned(collected)]
                 /\ pc' = "console_done"
                 /\ mkdirs' = <<>>
                 /\ UNCHANGED <<task, dirs>>
            ELSE IF ~dirOk
            THEN /\ consoleProducer' = [produced |-> NoResult,
                                        result |-> Returned(Err(Io("create_dir_all")))]
                 /\ pc' = "console_done"
                 /\ mkdirs' = <<Mkdir("run_producer_agent", OutDir, FALSE)>>
                 /\ UNCHANGED <<task, dirs>>
            ELSE /\ task' = Some(collected.val)
                 /\ dirs' = dirs \cup {OutDir}
                 /\ mkdirs' = <<Mkdir("run_producer_agent", OutDir, TRUE)>>
                 /\ pc' = "console_begin"
                 /\ UNCHANGED consoleProducer
    /\ lastCall' = NoCall
    /\ UNCHANGED <<roundTrip, consoleRun, feature, config, clients, newResult, newLog, retryVars,
                   inflight, files, produced, audited, pipeResult>>

\* ProducerAgent::execute up to the await of its request, producer.rs:31-87,
\* as run_producer_agent calls it
ConsoleProducerBegin ==
    /\ pc = "console_begin"
    /\ \E dirOk \in BOOLEAN :
         LET begin == execute_begin(out_path(OutDir, "solution.json"), dirOk) IN
         /\ dirs' = dirs \cup begin.created
         /\ mkdirs' = mkdirs \o StageMkdirs("producer", begin)
         /\ IF begin.requested
            THEN /\ requests' = Append(requests,
                       Request("producer", console_client(clients), [task_spec |-> task.val]))
                 /\ inflight' = inflight \cup {"producer"}
                 /\ pc' = "console_wait"
                 /\ UNCHANGED consoleProducer
            ELSE /\ consoleProducer' =
                       [produced |-> Returned(begin.result),
                        result |-> Returned(run_producer_agent_return(begin.result))]
                 /\ pc' = "console_done"
                 /\ UNCHANGED <<requests, inflight>>
    /\ lastCall' = NoCall
    /\ UNCHANGED <<roundTrip, consoleRun, feature, config, clients, newResult, newLog, retryVars, task,
                   files, filesBefore, writes, produced, audited, pipeResult>>

\* ProducerAgent::execute from the reply to its return, producer.rs:87-107,
\* and the rest of run_producer_agent, console/mod.rs:202-222
ConsoleProducerComplete ==
    /\ pc = "console_wait"
    /\ \E outcome \in StageOutcomes(ProducerContents), now \in Timestamps,
          how \in WriteOutcomes :
         LET call == Call(console_client(clients), outcome)
             fin == producer_finish(call, files.solution, now, how) IN
         /\ lastCall' = call
         /\ inflight' = inflight \ {"producer"}
         /\ files' = [files EXCEPT !.solution = fin.file]
         /\ writes' = writes \o [i \in 1..Len(fin.writes) |->
                                    [path |-> "solution", text |-> fin.writes[i].text,
                                     how |-> fin.writes[i].how]]
         /\ consoleProducer' = [produced |-> Returned(fin.result),
                                result |-> Returned(run_producer_agent_return(fin.result))]
         /\ pc' = "console_done"
    /\ UNCHANGED <<roundTrip, consoleRun, feature, config, clients, newResult, newLog, retryVars, task,
                   requests, dirs, mkdirs, filesBefore, produced, audited, pipeResult>>

Next ==
    \/ ClientNew
    \/ SendRequestCall
    \/ SendRequestAttempt
    \/ SendRequestWake
    \/ ConsoleDisplay
    \/ ConsoleQuit
    \/ ConsoleInterrupt
    \/ OrchestratorNew
    \/ RunPipeline
    \/ ProducerBegin
    \/ ProducerComplete
    \/ AuditorBegin
    \/ AuditorComplete
    \/ RunConsoleProducer
    \/ ConsoleProducerBegin
    \/ ConsoleProducerComplete

Spec == Init /\ [][Next]_vars

(***************************************************************************)
(* Serialization and parsing of the schema types, types.rs, as pure        *)
(* functions: a value of the type is serialized with                       *)
(* serde_json::to_string_pretty and the text parsed with                   *)
(* serde_json::from_str.  The values are those the type admits, whether or *)
(* not a reply can parse to them.                                          *)
(***************************************************************************)
\* the values of an Option<serde_json::Value> field
OptionalJsons ==
    {None, Some(JNull), Some(JObj([k |-> JNum(1)])), Some(JObj([k |-> JNull]))}

\* Deliverable values, types.rs:35-43
Deliverables ==
    [text : {None, Some("- a - b - c")},
     json : OptionalJsons,
     code : {None, Some([language |-> "rust", content |-> "fn main() {}"])}]

\* SolutionV1 values, types.rs:58-69
SolutionValues ==
    {[ParseSolution(GoodSolutionReply).val EXCEPT
         !.deliverable = d, !.evidence.usage_note = note] :
        d \in Deliverables, note \in {None, Some("truncated")}}

\* CheckResult lists, types.rs:93-102
CheckLists ==
    {<<>>} \cup
    {<<[criterion |-> "compiles", pass_ |-> FALSE, reason |-> "no main",
        severity |-> "major", suggested_fix |-> fix]>> :
        fix \in {None, Some("add fn main")}}

\* ValidationV1 values, types.rs:104-116
ValidationValues ==
    {[ParseValidation(GoodValidationReply).val EXCEPT
         !.checks = checks, !.suggested_rewrite = rewrite] :
        checks \in CheckLists, rewrite \in OptionalJsons}

\* the program at rest, outside the round trip
Idle ==
    /\ feature = FALSE
    /\ config \in {cfg \in Configs : validate(cfg) /\ cfg.timeout = 30
                                      /\ ~is_official_deepseek_host(TRUE, cfg.base_url)}
    /\ clients = [chat |-> None, reasoner |-> None]
    /\ newResult = NoResult
    /\ newLog = <<>>
    /\ attempts = 0
    /\ backoff = 0
    /\ events = <<>>
    /\ srResult = NoResult
    /\ lastCall = NoCall
    /\ task = None
    /\ requests = <<>>
    /\ inflight = {}
    /\ dirs = {}
    /\ mkdirs = <<>>
    /\ files = [solution |-> None, validation |-> None]
    /\ filesBefore = files
    /\ writes = <<>>
    /\ produced = NoResult
    /\ audited = NoResult
    /\ pipeResult = NoResult
    /\ consoleProducer = NoConsoleProducer
    /\ consoleRun = NoConsoleRun

RoundTripInit ==
    /\ Idle
    /\ pc = "rt_value"
    /\ \/ \E v \in SolutionValues :
             roundTrip = [kind |-> "solution", value |-> v, text |-> None, parsed |-> None]
       \/ \E v \in ValidationValues :
             roundTrip = [kind |-> "validation", value |-> v, text |-> None, parsed |-> None]

\* serde_json::to_string_pretty(&value)
RoundTripSerialize ==
    /\ pc = "rt_value"
    /\ roundTrip' = [roundTrip EXCEPT !.text =
                        Some(IF roundTrip.kind = "solution"
                             THEN SerializeSolution(roundTrip.value)
                             ELSE SerializeValidation(roundTrip.value))]
    /\ pc' = "rt_text"
    /\ UNCHANGED <<consoleProducer, consoleRun, feature, config, clients, newResult, newLog, retryVars,
                   lastCall, pipeVars>>

\* serde_json::from_str(&text)
RoundTripParse ==
    /\ pc = "rt_text"
    /\ roundTrip' = [roundTrip EXCEPT !.parsed =
                        Some(IF roundTrip.kind = "solution"
                             THEN ParseSolution(roundTrip.text.val)
                             ELSE ParseValidation(roundTrip.text.val))]
    /\ pc' = "rt_parsed"
    /\ UNCHANGED <<consoleProducer, consoleRun, feature, config, clients, newResult, newLog, retryVars,
                   lastCall, pipeVars>>

RoundTripNext == RoundTripSerialize \/ RoundTripParse

RoundTripSpec == RoundTripInit /\ [][RoundTripNext]_vars

(***************************************************************************)
(* Properties of send_request.                                             *)
(***************************************************************************)
\* the attempts among the events, in order
AttemptsMade == SelectSeq(events, LAMBDA ev : ev.type = "attempt")

\* the sleeps among the events, in order
SleepsSlept == SelectSeq(events, LAMBDA ev : ev.type = "sleep")

Retriable == {"ServerBusy", "NetworkError"}
NotRetriable == {"Timeout", "ApiError", "ParseError", "ConfigError"}

\* C1: one call of send_request makes at most 3 attempts, and every attempt
\* but the last one made failed with ServerBusy or NetworkError.
C1_AtMostThreeAttempts ==
    /\ Len(AttemptsMade) <= 3
    /\ \A k \in 1..(Len(AttemptsMade) - 1) : AttemptsMade[k].kind \in Retriable

\* C1, witness: a call that used all three attempts has returned.
C1_ThreeAttemptsMade == pc = "sr_done" /\ Len(AttemptsMade) = 3

\* C2: an attempt that fails with Timeout, ApiError, ParseError or ConfigError
\* is the last event of the call, whatever came before it: send_request has
\* returned, with that very error, and neither a sleep nor an attempt follows.
C2_OtherErrorsReturnAtOnce ==
    \A i \in 1..Len(events) :
        (events[i].type = "attempt" /\ events[i].kind \in NotRetriable)
            => /\ i = Len(events)
               /\ pc = "sr_done"
               /\ srResult.returned
               /\ ~srResult.result.ok
               /\ srResult.result = send_request_once(lastCall.client, lastCall.outcome)
               /\ srResult.result.err.kind = events[i].kind

\* C2, witness: a Timeout on the second attempt, after one retry, was returned.
C2_TimeoutAfterRetryReturned ==
    /\ pc = "sr_done"
    /\ Len(events) = 3
    /\ events[3].kind = "Timeout"
    /\ srResult.result.err.kind = "Timeout"

\* 2^n
RECURSIVE Pow2(_)
Pow2(n) == IF n <= 0 THEN 1 ELSE 2 * Pow2(n - 1)

\* C3: attempts and sleeps alternate, a sleep follows a failed attempt and
\* precedes the next attempt (which is due unless an interrupt of the
\* console dropped the call), the first sleep is 500ms and each later one is
\* twice the previous one; a call whose first two attempts fail with
\* ServerBusy and whose third succeeds returns the success value after
\* 2 retries, having slept 500ms then 1000ms.
C3_BackoffDoubles ==
    /\ \A i \in 1..Len(events) :
          /\ events[i].type = (IF i % 2 = 0 THEN "sleep" ELSE "attempt")
          /\ events[i].type = "sleep"
                => /\ events[i - 1].kind \in Retriable
                   /\ events[i].ms = 500 * Pow2((i \div 2) - 1)
                   /\ \/ i < Len(events)
                      \/ pc = "sr_attempt"
                      \/ consoleRun.interruptedAt = "sr_attempt"
    /\ (pc = "sr_sleep") => events[Len(events)].type = "attempt"
    /\ (/\ pc = "sr_done"
        /\ Len(AttemptsMade) = 3
        /\ AttemptsMade[1].kind = "ServerBusy"
        /\ AttemptsMade[2].kind = "ServerBusy"
        /\ AttemptsMade[3].kind = "Ok")
          => /\ srResult.result.ok
             /\ srResult.result = send_request_once(lastCall.client, lastCall.outcome)
             /\ attempts = 2
             /\ [i \in 1..Len(SleepsSlept) |-> SleepsSlept[i].ms] = <<500, 1000>>

\* C3, witness: busy, 500ms, busy, 1000ms, success.
C3_TwoRetriesThenSuccess ==
    /\ pc = "sr_done"
    /\ Len(events) = 5
    /\ events[1].kind = "ServerBusy"
    /\ events[2] = SleepEvent(500)
    /\ events[3].kind = "ServerBusy"
    /\ events[4] = SleepEvent(1000)
    /\ events[5].kind = "Ok"
    /\ srResult.result.ok

(***************************************************************************)
(* Properties of the stages' requests and of their order.                  *)
(***************************************************************************)
\* the requests a stage issued in this run
RequestsOf(stage) == SelectSeq(requests, LAMBDA rq : rq.stage = stage)

\* C4: one execution of a stage issues at most one request, whatever its
\* outcome, so one run_pipeline issues at most 2; after a failed Producer
\* stage the run is over with the one request it made.
C4_OneRequestPerStage ==
    /\ Len(RequestsOf("producer")) <= 1
    /\ Len(RequestsOf("auditor")) <= 1
    /\ Len(requests) <= 2
    /\ (produced.returned /\ ~produced.result.ok)
          => (pc = "pipeline_done" /\ Len(requests) <= 1 /\ inflight = {})
    /\ (audited.returned /\ ~audited.result.ok)
          => (pc = "pipeline_done" /\ Len(requests) <= 2 /\ inflight = {})

\* C4, witness: a run ended on an Auditor reply that did not decode, with
\* one request from each stage.
C4_TwoRequestsAuditorFailed ==
    /\ pc = "pipeline_done"
    /\ Len(requests) = 2
    /\ audited.returned
    /\ audited.result = Err(Serde)

(***************************************************************************)
(* Properties of the classification of failures.                           *)
(***************************************************************************)
BusyStatuses == {429, 502, 503, 504}

\* the latest step completed a call over the direct HTTP strategy
HttpCall == lastCall.strategy = "http"

\* the reply of a 2xx response, when the body decodes and has a choice
ReplyOf(outcome) ==
    IF /\ outcome.type = "response"
       /\ outcome.body.readable
       /\ outcome.body.wire.some
       /\ Len(outcome.body.wire.val) > 0
    THEN Some(outcome.body.wire.val[1])
    ELSE None

\* C5: over the direct HTTP strategy a non-2xx response is ServerBusy exactly
\* when its status is 429, 502, 503 or 504 and is otherwise an ApiError with
\* that status and the body text ("Unknown error" stands for a body that
\* cannot be read); a 429 followed by a 200 whose reply decodes makes
\* send_request succeed.
C5_StatusClassification ==
    /\ (/\ HttpCall
        /\ lastCall.outcome.type = "response"
        /\ ~(lastCall.outcome.status \in 200..299))
          => /\ ~lastCall.result.ok
             /\ (lastCall.result.err = ServerBusy)
                    <=> (lastCall.outcome.status \in BusyStatuses)
             /\ (lastCall.outcome.status \notin BusyStatuses)
                    => /\ lastCall.result.err.kind = "ApiError"
                       /\ lastCall.result.err.status = lastCall.outcome.status
                       /\ lastCall.result.err.message =
                             (IF lastCall.outcome.body.readable
                              THEN lastCall.outcome.body.text
                              ELSE "Unknown error")
    /\ (/\ HttpCall
        /\ pc = "sr_done"
        /\ Len(events) = 3
        /\ events[1].status = 429
        /\ events[3].status = 200
        /\ ReplyOf(lastCall.outcome).some
        /\ ParseDeepSeekResponse(ReplyOf(lastCall.outcome).val).ok)
          => /\ srResult.result.ok
             /\ srResult.result = ParseDeepSeekResponse(ReplyOf(lastCall.outcome).val)

\* C5, witness: a 429, one sleep, a 200, and send_request returned the reply.
C5_BusyThenOk ==
    /\ HttpCall
    /\ pc = "sr_done"
    /\ Len(events) = 3
    /\ events[1].status = 429
    /\ events[1].kind = "ServerBusy"
    /\ events[3].status = 200
    /\ srResult.result.ok

\* C6: over the direct HTTP strategy a send error with the timeout flag is
\* Timeout with the configured seconds, whatever its other flags, and every
\* other send error is a NetworkError; send_request returns the Timeout
\* without a retry.
C6_TimeoutClassification ==
    (HttpCall /\ lastCall.outcome.type = "send_error")
        => /\ ~lastCall.result.ok
           /\ lastCall.outcome.timeout
                 => /\ lastCall.result.err = Timeout(lastCall.client.config.timeout)
                    /\ pc # "sr_sleep"
                    /\ (pc = "sr_done")
                          => srResult.result
                                = Err(Timeout(lastCall.client.config.timeout))
           /\ ~lastCall.outcome.timeout
                 => lastCall.result.err.kind = "NetworkError"

\* C6, witness: a connect timeout under a 60s configuration ended send_request.
C6_ConnectTimeoutReturned ==
    /\ HttpCall
    /\ pc = "sr_done"
    /\ lastCall.outcome.type = "send_error"
    /\ lastCall.outcome.timeout
    /\ lastCall.outcome.connect
    /\ srResult.result = Err(Timeout(60))

\* C7: over the direct HTTP strategy a 2xx response gives the content of the
\* first choice when there is one, ParseError "No choices in API response"
\* when choices is empty, and a ParseError when the body does not decode.
C7_FirstChoice ==
    (/\ HttpCall
     /\ lastCall.outcome.type = "response"
     /\ lastCall.outcome.status \in 200..299)
        => LET body == lastCall.outcome.body IN
           IF body.readable /\ body.wire.some
           THEN IF Len(body.wire.val) > 0
                THEN lastCall.result = Ok(body.wire.val[1])
                ELSE lastCall.result = Err(ParseError("No choices in API response"))
           ELSE ~lastCall.result.ok /\ lastCall.result.err.kind = "ParseError"

\* C7, witness: a body with several choices gave its first one.
C7_SeveralChoices ==
    /\ HttpCall
    /\ lastCall.outcome.type = "response"
    /\ lastCall.outcome.body.readable
    /\ lastCall.outcome.body.wire.some
    /\ Len(lastCall.outcome.body.wire.val) >= 2
    /\ lastCall.result.ok

\* C8: a constructor call whose SDK client is not compiled in, not selected
\* or fails to initialize succeeds, and every call of the client it built
\* goes through the direct HTTP strategy; the constructor fails only with
\* the ConfigError of the validation or of the HTTP client.
C8_SdkFallback ==
    \A i \in 1..Len(newLog) :
        /\ newLog[i].sdk \in {"not_compiled", "not_selected", "failed"}
              => /\ newLog[i].result.ok
                 /\ (lastCall.strategy # "none"
                     /\ lastCall.client = newLog[i].result.val)
                       => lastCall.strategy = "http"
        /\ ~newLog[i].result.ok
              => /\ newLog[i].result.err.kind = "ConfigError"
                 /\ newLog[i].http \in {"not_reached", "failed"}

\* C8, witness: the SDK failed to initialize and the client went over HTTP.
C8_FailedSdkThenHttp ==
    \E i \in 1..Len(newLog) :
        /\ newLog[i].sdk = "failed"
        /\ newLog[i].result.ok
        /\ lastCall.strategy = "http"
        /\ lastCall.client = newLog[i].result.val

\* what the contract of send_messages_raw tells: the reply, or the kind of
\* the failure and the status of an ApiError
Classification(r) ==
    IF r.ok THEN r
    ELSE [ok |-> FALSE, kind |-> r.err.kind,
          status |-> IF r.err.kind = "ApiError" THEN r.err.status ELSE 0]

\* the remote outcomes whose classification the taxonomy derives from the
\* transport: a send error, a non-2xx status, or a reply
Classified(outcome) ==
    \/ outcome.type = "send_error"
    \/ ~is_success(outcome.status)
    \/ ReplyOf(outcome).some

\* C9: a call over the vendor-SDK strategy returns what the direct HTTP
\* strategy returns for the same remote outcome: the raw text of the first
\* choice, or the same classification of the failure (ServerBusy for 429,
\* 502, 503 and 504, Timeout, NetworkError, ApiError with the HTTP status).
C9_StrategiesAgree ==
    (lastCall.strategy = "sdk" /\ Classified(lastCall.outcome))
        => Classification(lastCall.result)
              = Classification(send_messages_raw_internal(lastCall.client.config,
                                                          lastCall.outcome))

\* C10: the Auditor's request is the second of the run and is issued once
\* the Producer returned a Solution: parsed, repaired, written to
\* solution.json and embedded in the request; no two requests are in flight.
C10_AuditorAfterProducer ==
    /\ Cardinality(inflight) <= 1
    /\ \A i \in 1..Len(requests) :
          requests[i].stage = "auditor"
              => /\ i = 2
                 /\ requests[1].stage = "producer"
                 /\ "producer" \notin inflight
                 /\ produced.returned
                 /\ produced.result.ok
                 /\ requests[i].payload.solution = produced.result.val
                 /\ produced.result.val.schema_version # ""
                 /\ produced.result.val.created_at \notin {"", " ", "  "}
                 /\ files.solution = Some(SerializeSolution(produced.result.val))

\* C10, witness: the Auditor's request is in flight with a Solution whose
\* created_at the Producer stage filled in.
C10_AuditorInFlight ==
    /\ inflight = {"auditor"}
    /\ Len(requests) = 2
    /\ requests[2].payload.solution.created_at \in Timestamps
    /\ requests[2].payload.solution.schema_version = "solution_v1"


(***************************************************************************)
(* Properties of the stages and of run_pipeline.                           *)
(***************************************************************************)
ProducerFailed == produced.returned /\ ~produced.result.ok
AuditorFailed == audited.returned /\ ~audited.result.ok

\* the fs::write calls of this run on one of the two output paths
WritesTo(path) == SelectSeq(writes, LAMBDA w : w.path = path)

\* the request is the Producer's, sent through the chat client and not
\* through the client of the reasoning model
ViaChatClient(request) ==
    request.stage = "producer" /\ request.model = clients.chat.val.config.model

\* C11: when the Producer stage fails, run_pipeline is over and has returned
\* that error, the Auditor has not run, no request went out through the
\* client of the reasoning model and validation.json was not written; when the Auditor
\* stage fails, run_pipeline has returned that error and no pair.
C11_StageFailureAborts ==
    /\ ProducerFailed =>
          /\ pc = "pipeline_done"
          /\ pipeResult = produced
          /\ ~audited.returned
          /\ RequestsOf("auditor") = <<>>
          /\ \A i \in 1..Len(requests) : ViaChatClient(requests[i])
          /\ WritesTo("validation") = <<>>
          /\ files.validation = filesBefore.validation
    /\ AuditorFailed =>
          /\ pc = "pipeline_done"
          /\ pipeResult = audited
          /\ ~pipeResult.result.ok

\* the Producer's reply did not decode, with a validation.json of an earlier
\* run in the directory
C11_ProducerFailedOnReply ==
    /\ ProducerFailed
    /\ produced.result.err.kind = "Serde"
    /\ Len(requests) = 1
    /\ filesBefore.validation = Some(StaleFile)

PipelineSucceeded == pipeResult.returned /\ pipeResult.result.ok

\* C12: in a successful run the Solution in the Auditor's request, the one
\* written to solution.json (once, and read back from the file) and the one
\* returned to the caller are the Solution the Producer returned.
C12_SolutionUnmodified ==
    PipelineSucceeded =>
        LET solution == produced.result.val IN
        /\ pipeResult.result.val.solution = solution
        /\ Len(RequestsOf("auditor")) = 1
        /\ RequestsOf("auditor")[1].payload.solution = solution
        /\ Len(WritesTo("solution")) = 1
        /\ files.solution = Some(WritesTo("solution")[1].text)
        /\ ParseSolution(files.solution.val) = Ok(solution)

\* a successful run whose Solution was repaired and replaced an older file
C12_RepairedSolutionRun ==
    /\ PipelineSucceeded
    /\ filesBefore.solution = Some(StaleFile)
    /\ produced.result.val.created_at \in Timestamps
    /\ produced.result.val.schema_version = "solution_v1"

\* the latest step was the return of ProducerAgent::execute, respectively of
\* AuditorAgent::execute, after its request was answered
ProducerReturned == produced.returned /\ ~audited.returned /\ lastCall.strategy # "none"
AuditorReturned == audited.returned /\ lastCall.strategy # "none"

\* the raw reply the stage got from its client
RawReply == lastCall.result.val

\* the reply is `good` without its schema_version or without its created_at
OmitsBookkeeping(raw, good) ==
    raw \in {Omitting(good, "schema_version"), Omitting(good, "created_at")}

\* C13: a reply that is well-formed but for a missing schema_version or
\* created_at is not rejected: the stage does not fail to decode it, and the
\* artifact it returns has the fixed literal and a current timestamp.
C13_OmittedFieldsRepaired ==
    /\ (ProducerReturned /\ lastCall.result.ok
            /\ OmitsBookkeeping(RawReply, GoodSolutionReply)) =>
          /\ KindOf(produced.result) # "Serde"
          /\ produced.result.ok =>
                /\ produced.result.val.schema_version = "solution_v1"
                /\ produced.result.val.created_at # ""
    /\ (AuditorReturned /\ lastCall.result.ok
            /\ OmitsBookkeeping(RawReply, GoodValidationReply)) =>
          /\ KindOf(audited.result) # "Serde"
          /\ audited.result.ok =>
                /\ audited.result.val.schema_version = "validation_v1"
                /\ audited.result.val.created_at # ""

\* the stage returned an artifact: what it parsed from the reply, and what
\* it returned
ProducerRepaired == ProducerReturned /\ produced.result.ok
AuditorRepaired == AuditorReturned /\ audited.result.ok
ParsedSolution == ParseSolution(RawReply).val
ParsedValidation == ParseValidation(RawReply).val

\* repair as the claim C14 states it: a field is replaced exactly when the
\* parsed string is empty
RepairedByEmptiness(parsed, returned, literal) ==
    /\ parsed.schema_version # "" => returned.schema_version = parsed.schema_version
    /\ parsed.schema_version = "" => returned.schema_version = literal
    /\ parsed.created_at # "" => returned.created_at = parsed.created_at
    /\ parsed.created_at = "" => returned.created_at \in Timestamps

\* C14: the repair step of both stages leaves schema_version and created_at
\* as parsed when the parsed string is not empty, a string of whitespace
\* included, and replaces an empty one with the literal, respectively the
\* current time.
C14_RepairByEmptiness ==
    /\ ProducerRepaired =>
          RepairedByEmptiness(ParsedSolution, produced.result.val, "solution_v1")
    /\ AuditorRepaired =>
          RepairedByEmptiness(ParsedValidation, audited.result.val, "validation_v1")

\* strings a parsed schema_version or created_at may be: empty, of
\* whitespace only, or not
BookkeepingStrings ==
    {"", " ", "  ", "solution_v1", "validation_v1", "solution_v2",
     "2025-05-31T23:59:59Z"}

\* C15: the repair step is idempotent: applied again to the artifact a stage
\* returned, or to the repair of any parsed value, at whatever time, it
\* changes no field.
C15_RepairIdempotent ==
    /\ ProducerRepaired =>
          /\ \A now \in Timestamps :
                repair_solution(produced.result.val, now) = produced.result.val
          /\ \A version \in BookkeepingStrings, created \in BookkeepingStrings,
                now \in Timestamps, later \in Timestamps :
                LET parsed == [produced.result.val EXCEPT !.schema_version = version,
                                                           !.created_at = created]
                    once == repair_solution(parsed, now) IN
                repair_solution(once, later) = once
    /\ AuditorRepaired =>
          /\ \A now \in Timestamps :
                repair_validation(audited.result.val, now) = audited.result.val
          /\ \A version \in BookkeepingStrings, created \in BookkeepingStrings,
                now \in Timestamps, later \in Timestamps :
                LET parsed == [audited.result.val EXCEPT !.schema_version = version,
                                                          !.created_at = created]
                    once == repair_validation(parsed, now) IN
                repair_validation(once, later) = once

\* the Producer returned an artifact whose two fields it had to fill
C15_BothFieldsFilled ==
    /\ ProducerRepaired
    /\ ParsedSolution.schema_version = ""
    /\ ParsedSolution.created_at = ""
    /\ produced.result.val.schema_version = "solution_v1"
    /\ produced.result.val.created_at \in Timestamps

\* the two fields the repair step may fill
Bookkeeping == {"schema_version", "created_at"}

\* C16: between the parse and the return a stage changes no field but
\* schema_version and created_at: every other field of the artifact it
\* returns is the one parsed from the reply, and the identifiers are those
\* of the reply's text.
C16_OtherFieldsAsParsed ==
    /\ ProducerRepaired =>
          /\ DOMAIN produced.result.val = DOMAIN ParsedSolution
          /\ \A field \in DOMAIN ParsedSolution \ Bookkeeping :
                produced.result.val[field] = ParsedSolution[field]
          /\ produced.result.val.task_id = RawReply.value.v["task_id"].v
          /\ produced.result.val.deliverable_type = RawReply.value.v["deliverable_type"].v
    /\ AuditorRepaired =>
          /\ DOMAIN audited.result.val = DOMAIN ParsedValidation
          /\ \A field \in DOMAIN ParsedValidation \ Bookkeeping :
                audited.result.val[field] = ParsedValidation[field]
          /\ audited.result.val.solution_id = RawReply.value.v["solution_id"].v
          /\ Len(audited.result.val.checks) = Len(RawReply.value.v["checks"].v)

\* the Auditor returned a Validation it had to repair, with its three checks
C16_RepairedValidation ==
    /\ AuditorRepaired
    /\ ParsedValidation.schema_version = ""
    /\ audited.result.val.schema_version = "validation_v1"
    /\ audited.result.val.created_at \in Timestamps
    /\ Len(audited.result.val.checks) = 3

\* the variants of a Deliverable that are populated
Populated(deliverable) == {variant \in DeliverableTypes : deliverable[variant].some}

\* C17: a Solution returned by ProducerAgent::execute has the TaskSpec's
\* deliverable_type and exactly the variant of that type populated.
C17_DeliverableMatchesTask ==
    (produced.returned /\ produced.result.ok) =>
        /\ produced.result.val.deliverable_type = task.val.deliverable_type
        /\ Populated(produced.result.val.deliverable)
               = {produced.result.val.deliverable_type}

\* C18: every Solution a Producer returns has schema_version "solution_v1"
\* and every Validation an Auditor returns has "validation_v1", whatever the
\* reply carried.
C18_FixedSchemaVersion ==
    /\ (produced.returned /\ produced.result.ok) =>
          produced.result.val.schema_version = "solution_v1"
    /\ (audited.returned /\ audited.result.ok) =>
          audited.result.val.schema_version = "validation_v1"

\* the result a stage owes for what happened to it: `call` is its
\* send_messages_raw call, `decoded` the decode of the reply, `written_` the
\* fs::write calls it made
ErrorKept(result, call, decoded, written_) ==
    /\ ~call.result.ok => result = Err(Llm(call.result.err))
    /\ (call.result.ok /\ ~call.result.val.json) => result = Err(Serde)
    /\ (call.result.ok /\ ~decoded.ok) => result = Err(Serde)
    /\ (call.result.ok /\ decoded.ok) =>
          /\ Len(written_) = 1
          /\ written_[1].how # "ok" => result = Err(Io("write"))
          /\ written_[1].how = "ok" => result.ok
    /\ result.ok => (call.result.ok /\ decoded.ok /\ written_[1].how = "ok")

\* C19: a stage's error tells its cause: a failed transport call comes back
\* as Llm around the client's own error, a reply that does not decode as
\* Serde, a failed directory creation or write as Io, and a stage succeeds
\* only when nothing failed.
C19_ErrorKindsKept ==
    /\ ProducerReturned =>
          ErrorKept(produced.result, lastCall,
                    IF lastCall.result.ok THEN ParseSolution(RawReply) ELSE Err(SerdeError),
                    WritesTo("solution"))
    /\ AuditorReturned =>
          ErrorKept(audited.result, lastCall,
                    IF lastCall.result.ok THEN ParseValidation(RawReply) ELSE Err(SerdeError),
                    WritesTo("validation"))
    /\ (produced.returned /\ RequestsOf("producer") = <<>>) =>
          produced.result = Err(Io("create_dir_all"))
    /\ (audited.returned /\ RequestsOf("auditor") = <<>>) =>
          audited.result = Err(Io("create_dir_all"))

\* the Auditor's request timed out after the Producer's stage succeeded
C19_AuditorTimedOut ==
    /\ AuditorReturned
    /\ ~lastCall.result.ok
    /\ lastCall.result.err.kind = "Timeout"
    /\ audited.result = Err(Llm(Timeout(config.timeout)))

\* what a stage may do to its output file: `call` is its send_messages_raw
\* call, `decoded` the decode of the reply, `texts` the serialized repairs
\* of the decoded value, `written_` the fs::write calls it made
WritesOnlyWhole(call, decoded, texts, written_, before, after) ==
    /\ Len(written_) <= 1
    /\ (~call.result.ok \/ ~decoded.ok) => (written_ = <<>> /\ after = before)
    /\ \A i \in 1..Len(written_) :
          /\ call.result.ok /\ decoded.ok
          /\ written_[i].text \in texts
          /\ written_[i].how = "ok" => after = Some(written_[i].text)

\* C20: a stage writes its output file at most once per execution, and what
\* it writes is the serialized, repaired value it decoded from the reply;
\* when the transport call or the decode fails it writes nothing and the
\* file is as it was.
C20_WriteOnceAfterDecode ==
    /\ Len(WritesTo("solution")) <= 1
    /\ Len(WritesTo("validation")) <= 1
    /\ ProducerReturned =>
          WritesOnlyWhole(lastCall,
              IF lastCall.result.ok THEN ParseSolution(RawReply) ELSE Err(SerdeError),
              {SerializeSolution(repair_solution(ParsedSolution, now)) : now \in Timestamps},
              WritesTo("solution"), filesBefore.solution, files.solution)
    /\ AuditorReturned =>
          WritesOnlyWhole(lastCall,
              IF lastCall.result.ok THEN ParseValidation(RawReply) ELSE Err(SerdeError),
              {SerializeValidation(repair_validation(ParsedValidation, now)) :
                  now \in Timestamps},
              WritesTo("validation"), filesBefore.validation, files.validation)

\* the Producer's reply did not decode and the solution.json of an earlier
\* run is still there
C20_StaleFileKept ==
    /\ ProducerReturned
    /\ lastCall.result.ok
    /\ ~ParseSolution(RawReply).ok
    /\ filesBefore.solution = Some(StaleFile)
    /\ files.solution = Some(StaleFile)
    /\ writes = <<>>

(***************************************************************************)
(* Properties of the schema types.                                         *)
(***************************************************************************)
\* C21: serializing a Solution or a Validation and parsing the text back
\* gives a value equal in all fields, also when an optional JSON field holds
\* a present null and when the optional fields are absent.
C21_RoundTrip ==
    pc = "rt_parsed" => roundTrip.parsed.val = Ok(roundTrip.value)

\* identifiers a reply may carry
Identifiers == {"task-1", "task-2", "sol-1", "sol-9"}

\* the reply is a JSON object
ObjectReply == lastCall.result.ok /\ RawReply.json /\ RawReply.value.t = "obj"

\* C22: the outcome of a stage does not depend on the identifiers of the
\* reply nor on the number of its checks: whether the reply decodes is the
\* same whatever they are, a reply that decodes and is written makes the
\* stage succeed, and the artifact returned carries the reply's identifiers
\* and checks.
C22_IdentifiersNotChecked ==
    /\ (ProducerReturned /\ ObjectReply /\ Has(RawReply.value, "task_id")) =>
          /\ \A id \in Identifiers :
                ParseSolution(Replacing(RawReply, "task_id", JStr(id))).ok
                    = ParseSolution(RawReply).ok
          /\ (ParseSolution(RawReply).ok /\ WritesTo("solution")[1].how = "ok") =>
                /\ produced.result.ok
                /\ produced.result.val.task_id = RawReply.value.v["task_id"].v
    /\ (AuditorReturned /\ ObjectReply /\ Has(RawReply.value, "task_id")
            /\ Has(RawReply.value, "solution_id") /\ Has(RawReply.value, "checks")) =>
          /\ \A id \in Identifiers, n \in 0..3 :
                /\ ParseValidation(Replacing(RawReply, "task_id", JStr(id))).ok
                      = ParseValidation(RawReply).ok
                /\ ParseValidation(Replacing(RawReply, "solution_id", JStr(id))).ok
                      = ParseValidation(RawReply).ok
                /\ ParseValidation(Replacing(RawReply, "checks",
                                             JArr(SubSeq(ThreeChecks, 1, n)))).ok
                      = ParseValidation(RawReply).ok
          /\ (ParseValidation(RawReply).ok /\ WritesTo("validation")[1].how = "ok") =>
                /\ audited.result.ok
                /\ audited.result.val.task_id = RawReply.value.v["task_id"].v
                /\ audited.result.val.solution_id = RawReply.value.v["solution_id"].v
                /\ Len(audited.result.val.checks) = Len(RawReply.value.v["checks"].v)

\* both stages succeeded on replies whose identifiers and number of checks
\* are not those of their inputs
C22_MismatchesAccepted ==
    /\ AuditorRepaired
    /\ produced.result.val.task_id # task.val.task_id
    /\ audited.result.val.task_id # task.val.task_id
    /\ audited.result.val.solution_id # produced.result.val.solution_id
    /\ Len(audited.result.val.checks) # Len(task.val.acceptance_criteria)

(***************************************************************************)
(* Properties of the interactive entry point.                              *)
(***************************************************************************)
\* run_console_producer was called
ConsoleProducerEntered == pc \in {"console_begin", "console_wait", "console_done"}

\* C23: the interactive entry point runs the Producer stage only: no request
\* goes out through the client of the reasoning model, the Auditor does not
\* run, at most one write happens, to solution.json, and validation.json is
\* as it was.
C23_ConsoleRunsProducerOnly ==
    ConsoleProducerEntered =>
        /\ \A i \in 1..Len(requests) : ViaChatClient(requests[i])
        /\ Len(requests) <= 1
        /\ ~audited.returned
        /\ "auditor" \notin inflight
        /\ Len(writes) <= 1
        /\ WritesTo("validation") = <<>>
        /\ files.validation = filesBefore.validation

\* the interactive entry point has saved a Solution next to the
\* validation.json of an earlier run
C23_ConsoleSavedSolution ==
    /\ pc = "console_done"
    /\ consoleProducer.produced.returned
    /\ consoleProducer.produced.result.ok
    /\ Len(WritesTo("solution")) = 1
    /\ files.validation = Some(StaleFile)

\* C24: when the Producer stage fails inside run_console_producer, the entry
\* point returns an error to its caller.
C24_ConsoleFailurePropagated ==
    (/\ consoleProducer.produced.returned
     /\ ~consoleProducer.produced.result.ok
     /\ consoleProducer.result.returned) =>
        ~consoleProducer.result.result.ok

(***************************************************************************)
(* Properties of Console::run.                                             *)
(***************************************************************************)
\* C25: when an interrupt wins against the send_request in flight, at an
\* attempt or in a backoff sleep, the call is dropped where it was: it has
\* not returned, no attempt beyond those made before the interrupt is
\* issued, its result is not displayed, and the loop is over (nothing more
\* happens); an interrupt winning against the input wait ends the loop too.
C25_InterruptAbandonsRequest ==
    /\ consoleRun.ended = "cancelled" =>
          /\ pc = "console_exit"
          /\ consoleRun.interruptedAt \in {"sr_attempt", "sr_sleep"}
          /\ srResult = NoResult
          /\ consoleRun.displayed = consoleRun.inputs - 1
          /\ Len(AttemptsMade) = attempts
          /\ Len(SleepsSlept) =
                IF consoleRun.interruptedAt = "sr_sleep" THEN attempts - 1 ELSE attempts
          /\ ~ENABLED Next
    /\ consoleRun.interruptedAt = "ready" =>
          /\ pc = "console_exit"
          /\ consoleRun.ended = "goodbye"
          /\ consoleRun.displayed = consoleRun.inputs
          /\ ~ENABLED Next

\* the interrupt came during the second backoff sleep
C25_InterruptedInBackoff ==
    /\ pc = "console_exit"
    /\ consoleRun.ended = "cancelled"
    /\ consoleRun.interruptedAt = "sr_sleep"
    /\ attempts = 2
    /\ Len(SleepsSlept) = 1

(***************************************************************************)
(* Properties of Orchestrator::new.                                        *)
(***************************************************************************)
\* the Orchestrator was built: it owns its two clients
OrchestratorBuilt == clients.chat.some /\ clients.reasoner.some

\* the two clients differ in nothing but the model
SameButModel(chat, reasoner) ==
    \A field \in DOMAIN chat \ {"model"} : chat[field] = reasoner[field]

\* the requests carry the model of the stage's client
RequestsCarryModels ==
    \A i \in 1..Len(requests) :
        requests[i].model = IF requests[i].stage = "producer" THEN config.model
                            ELSE "deepseek-reasoner"

\* C26: the two clients of an Orchestrator are configured for two different
\* model names and are the same in credential, endpoint, timeout, token
\* limit and temperature; the Producer's requests carry the base model, the
\* Auditor's carry "deepseek-reasoner".
C26_TwoDifferentModels ==
    OrchestratorBuilt =>
        /\ clients.chat.val.config.model # clients.reasoner.val.config.model
        /\ SameButModel(clients.chat.val.config, clients.reasoner.val.config)
        /\ clients.chat.val.config = config
        /\ RequestsCarryModels

(***************************************************************************)
(* Termination of send_request.                                            *)
(***************************************************************************)
\* send_request is running: at an attempt or in a backoff sleep
InSendRequest == pc \in {"sr_attempt", "sr_sleep"}

\* the steps send_request has left at most: two per attempt it may still
\* retry, one more while it sleeps
StepsLeft ==
    IF pc = "sr_attempt" THEN 2 * (max_attempts - attempts)
    ELSE IF pc = "sr_sleep" THEN 2 * (max_attempts - attempts) + 1
    ELSE 0

\* all three attempts were made and failed with ServerBusy or NetworkError
ThreeRetriableFailures ==
    /\ Len(AttemptsMade) = 3
    /\ \A k \in 1..3 : AttemptsMade[k].kind \in Retriable

\* C27: send_request terminates: while it runs it can always take a step,
\* every step it takes leaves it fewer steps, and the steps left are never
\* negative.  When all three attempts fail with ServerBusy or NetworkError
\* it has returned, the error of the third attempt, after exactly two
\* sleeps, of 500ms and 1000ms, and none after the third failure.
C27_SendRequestTerminates ==
    /\ [](StepsLeft >= 0)
    /\ [](InSendRequest => ENABLED (SendRequestAttempt \/ SendRequestWake))
    /\ [][InSendRequest => StepsLeft' < StepsLeft]_vars
    /\ [](ThreeRetriableFailures =>
            /\ pc = "sr_done"
            /\ srResult.returned
            /\ srResult.result = lastCall.result
            /\ ~srResult.result.ok
            /\ srResult.result.err.kind = AttemptsMade[3].kind
            /\ events[Len(events)].type = "attempt"
            /\ [i \in 1..Len(SleepsSlept) |-> SleepsSlept[i].ms] = <<500, 1000>>)

\* three failures, the first a network error and the third a busy server,
\* and the busy error was returned
C27_ThirdErrorReturned ==
    /\ pc = "sr_done"
    /\ ThreeRetriableFailures
    /\ AttemptsMade[1].kind = "NetworkError"
    /\ AttemptsMade[3].kind = "ServerBusy"
    /\ srResult.result = Err(ServerBusy)

(***************************************************************************)
(* Properties of the ApiError values.                                      *)
(***************************************************************************)
\* the latest step completed a call that failed with an ApiError
ApiErrorReturned == lastCall.strategy # "none" /\ KindOf(lastCall.result) = "ApiError"

\* C28: an ApiError of the direct HTTP strategy carries the status of a
\* response that is neither 2xx nor 429, 502, 503, 504, so user_message
\* takes its general ApiError branch for it; an ApiError of the vendor-SDK
\* strategy carries status 0.
C28_ApiErrorStatuses ==
    ApiErrorReturned =>
        LET e == lastCall.result.err IN
        /\ lastCall.strategy = "http" =>
              /\ e.status = StatusOf(lastCall.outcome)
              /\ e.status \notin BusyStatuses
              /\ ~is_success(e.status)
              /\ user_message(e) = "API error (status)"
        /\ lastCall.strategy = "sdk" => e.status = 0

\* the vendor SDK failed on a busy server and send_request returned its
\* ApiError
C28_SdkApiErrorOnBusy ==
    /\ pc = "sr_done"
    /\ ApiErrorReturned
    /\ lastCall.strategy = "sdk"
    /\ StatusOf(lastCall.outcome) = 429
    /\ srResult.result.err.status = 0

(***************************************************************************)
(* Properties of the output directory.                                     *)
(***************************************************************************)
\* validation.json was written in this run, for the Solution that is in
\* solution.json
ValidationOfStoredSolution ==
    /\ Len(WritesTo("validation")) = 1
    /\ files.validation = Some(WritesTo("validation")[1].text)
    /\ Len(RequestsOf("auditor")) = 1
    /\ files.solution = Some(SerializeSolution(RequestsOf("auditor")[1].payload.solution))

\* C29: once a run of run_pipeline is over, with every write it made having
\* succeeded, if solution.json and validation.json both exist then they are
\* the pair an earlier run left or validation.json is the Validation of the
\* Solution now in solution.json.
C29_ValidationMatchesSolution ==
    (/\ pc = "pipeline_done"
     /\ \A i \in 1..Len(writes) : writes[i].how = "ok"
     /\ files.solution.some
     /\ files.validation.some) =>
        files = filesBefore \/ ValidationOfStoredSolution

\* the stage made a create_dir_all call with the given outcome
StageMkdir(stage, ok) ==
    \E i \in 1..Len(mkdirs) : mkdirs[i].by = stage /\ mkdirs[i].ok = ok

\* what the stage returned, in either flow
StageReturned(stage) ==
    IF stage = "auditor" THEN audited
    ELSE IF ConsoleProducerEntered THEN consoleProducer.produced
    ELSE produced

\* C30: a stage creates the parent directory of its output path before it
\* issues its request. A request of a stage was issued only after the
\* stage's own create_dir_all succeeded, so the directory exists whatever
\* becomes of the request; a stage whose create_dir_all failed issued no
\* request and returned that error; and for an output path without a parent
\* the stage returns the error "invalid output path" with no request and no
\* directory created.
C30_DirectoryBeforeRequest ==
    /\ \A stage \in {"producer", "auditor"} :
         /\ Len(RequestsOf(stage)) > 0 =>
               /\ StageMkdir(stage, TRUE)
               /\ OutDir \in dirs
         /\ StageMkdir(stage, FALSE) =>
               /\ Len(RequestsOf(stage)) = 0
               /\ StageReturned(stage) = Returned(Err(Io("create_dir_all")))
    /\ \A path \in OrphanPaths, dirOk \in BOOLEAN :
         execute_begin(path, dirOk) =
            [requested |-> FALSE, called |-> FALSE, created |-> {},
             result |-> Err(Unexpected("invalid output path"))]

\* a stage failed on its request after it had created the directory
C30_FailedAfterDirectory ==
    /\ pc = "pipeline_done"
    /\ ProducerFailed
    /\ produced.result.err.kind = "Llm"
    /\ Len(RequestsOf("producer")) = 1
    /\ StageMkdir("producer", TRUE)
    /\ OutDir \in dirs
    /\ writes = <<>>

\* a stage could not create the directory and sent nothing
C30_NoDirectoryNoRequest ==
    /\ pc = "pipeline_done"
    /\ StageMkdir("auditor", FALSE)
    /\ AuditorFailed
    /\ Len(RequestsOf("auditor")) = 0
====
